---- MODULE Spec2Model ----
(***************************************************************************)
(* Session-state verification engine of the OpenXR conformance suite:      *)
(* the "SessionState" test case (event polling, frame submission and the   *)
(* lifecycle scenarios built from them) driving a black-box runtime.       *)
(*                                                                         *)
(* Time is counted in ticks of the running CountdownTimer: one tick is one *)
(* 5 ms sleep of waitForNextSessionState or one frame period of            *)
(* xrWaitFrame.  Only one CountdownTimer is alive at any moment (the code  *)
(* is single threaded), so the timer is kept as its remaining ticks.       *)
(***************************************************************************)
EXTENDS Naturals, Sequences, FiniteSets, TLC

\* ------------------------------------------------------------------ bounds
\* Longest duration a CountdownTimer examined on its own is created with.
MaxDuration == 3
\* How many times such a timer is asked IsTimeUp.
MaxQueries == 5
\* How many swapchain image formats the runtime enumerates.
MaxFormats == 3
\* Largest predictedDisplayTime a frame of the xrLocateViews test is given.
MaxTime == 2
\* Threads that call D3D11TextureCache::CreateTypedSolidColorTexture at once.
MaxThreads == 2
\* Calls of it that are made in all.
MaxCalls == 3
\* Largest value of the underlying integer type that is passed to the queries
\* on a ColorIntegerRange: the enumerators are 0 to 7.
MaxColorIntegerRange == 8
\* Ticks in the 1 s default duration of waitForNextSessionState.
WaitTicks == 2
\* Ticks in the 30 s default duration of submitFramesUntilSessionState.
SubmitTicks == 2
\* Ticks FrameIterator::RunToSessionState runs before it gives up.
RunTicks == 2
\* How many times the runtime under test may break the session contract.
MaxDeviations == 1
\* How many events of another type the runtime may enqueue.
MaxOtherEvents == 1
\* How many events a runtime that floods the queue keeps in it at most.
MaxFlood == 2

\* --------------------------------------------------------------- constants
States == {"IDLE", "READY", "SYNCHRONIZED", "VISIBLE", "FOCUSED", "STOPPING", "EXITING"}

OtherEvent == "OTHER_EVENT"

Results == {"SUCCESS", "SESSION_NOT_RUNNING", "SESSION_RUNNING", "SESSION_NOT_STOPPING",
            "SESSION_NOT_READY", "RUNTIME_FAILURE"}

\* What xrPollEvent returns when the queue holds no event: a success code.
EventUnavailable == "EVENT_UNAVAILABLE"

\* XR_FAILED of the throw helpers: the error codes are the negative results,
\* every result of the model but SUCCESS and EVENT_UNAVAILABLE.
XR_FAILED(res) == res \notin {"SUCCESS", EventUnavailable}

\* ----------------------------------------------- format classification
\* enum ColorIntegerRange
NoIntegerColor == 0

u8 == 1

s8 == 2

u16 == 3

s16 == 4

u32 == 5

s32 == 6

uRGB10A2 == 7

ColorIntegerRange == NoIntegerColor..uRGB10A2

\* The outcomes of a query: not made yet, a value returned, std::logic_error thrown.
Unset == [outcome |-> "unset"]

Return(value) == [outcome |-> "return", value |-> value]

LogicError(what) == [outcome |-> "logic_error", what |-> what]

\* Mutant: the uRGB10A2 case is missing and falls in with the 32-bit ranges.
ColorIntegerRangeBits_NoRGB10A2(colorIntegerRange) ==
    CASE colorIntegerRange = NoIntegerColor ->
              LogicError("ColorIntegerRangeBits only valid for integer colors")
      [] colorIntegerRange \in {u8, s8} -> Return(8)
      [] colorIntegerRange \in {u16, s16} -> Return(16)
      [] colorIntegerRange \in {u32, s32, uRGB10A2} -> Return(32)
      [] OTHER -> LogicError("Missing case in implementation of ColorIntegerRangeBits")

\* uint8_t ColorIntegerRangeBits(ColorIntegerRange colorIntegerRange)
ColorIntegerRangeBits(colorIntegerRange) ==
    CASE colorIntegerRange = NoIntegerColor ->
              LogicError("ColorIntegerRangeBits only valid for integer colors")
      [] colorIntegerRange \in {u8, s8} -> Return(8)
      [] colorIntegerRange \in {u16, s16} -> Return(16)
      [] colorIntegerRange \in {u32, s32} -> Return(32)
      [] colorIntegerRange = uRGB10A2 -> Return(10)
      [] OTHER -> LogicError("Missing case in implementation of ColorIntegerRangeBits")

\* Mutant: the default case returns false instead of throwing.
ColorIntegerRangeIsSigned_DefaultFalse(colorIntegerRange) ==
    CASE colorIntegerRange = NoIntegerColor ->
              LogicError("ColorIntegerRangeIsSigned only valid for integer colors")
      [] colorIntegerRange \in {u8, u16, u32, uRGB10A2} -> Return(FALSE)
      [] colorIntegerRange \in {s8, s16, s32} -> Return(TRUE)
      [] OTHER -> Return(FALSE)

\* Mutant: uRGB10A2 is listed with the signed ranges.
ColorIntegerRangeIsSigned_RGB10A2Signed(colorIntegerRange) ==
    CASE colorIntegerRange = NoIntegerColor ->
              LogicError("ColorIntegerRangeIsSigned only valid for integer colors")
      [] colorIntegerRange \in {u8, u16, u32} -> Return(FALSE)
      [] colorIntegerRange \in {s8, s16, s32, uRGB10A2} -> Return(TRUE)
      [] OTHER -> LogicError("Missing case in implementation of ColorIntegerRangeIsSigned")

\* bool ColorIntegerRangeIsSigned(ColorIntegerRange colorIntegerRange)
ColorIntegerRangeIsSigned(colorIntegerRange) ==
    CASE colorIntegerRange = NoIntegerColor ->
              LogicError("ColorIntegerRangeIsSigned only valid for integer colors")
      [] colorIntegerRange \in {u8, u16, u32, uRGB10A2} -> Return(FALSE)
      [] colorIntegerRange \in {s8, s16, s32} -> Return(TRUE)
      [] OTHER -> LogicError("Missing case in implementation of ColorIntegerRangeIsSigned")

\* The fields of SwapchainCreateTestParameters that classify the format.
SwapchainCreateTestParameters ==
    [colorFormat : {"NON_COLOR", "COLOR"},
     compressedFormat : {"UNCOMPRESSED", "COMPRESSED"},
     supportsRendering : {"NO_RENDERING_SUPPORT", "RENDERING_SUPPORT"},
     colorIntegerRange : ColorIntegerRange]

\* No record is under examination.
NoParameters ==
    [colorFormat |-> "NON_COLOR", compressedFormat |-> "UNCOMPRESSED",
     supportsRendering |-> "NO_RENDERING_SUPPORT", colorIntegerRange |-> NoIntegerColor]

VARIABLES
    scenario,        \* the leaf SECTION path this run of the test case executes
    probe,           \* the leaf section of "Try calls out of turn" this run enters (0: none)
    graphics,        \* GetGlobalData().IsUsingGraphicsPlugin()
    ip,              \* index of the scenario statement being executed
    pc,              \* position inside that statement
    countdown,       \* remaining ticks of the live CountdownTimer
    evt,             \* state of the last XrEventDataSessionStateChanged copied out
    cur,             \* the helper call in progress, or the last one: fn, arg, ret, frames, read
    failed,          \* an assertion of this run has failed
    failure,         \* the first failure of this run
    log,             \* what the scenario has observed and called, in order
    queue,           \* the runtime's event queue
    rtState,         \* the runtime's session state
    running,         \* the runtime's "session running" flag
    exitRequested,   \* xrRequestExitSession has succeeded
    ended,           \* xrEndSession has succeeded
    frameSubmitted,  \* a frame has been ended since xrBeginSession
    deviations,      \* contract violations the runtime has committed so far
    others,          \* events of another type enqueued so far
    delivered,       \* every session-state-changed event the runtime has enqueued, in order
    frameState,      \* submitFrame's frameState.predictedDisplayTime (0: as initialised)
    frameEndInfo,    \* submitFrame's frameEndInfo once it is filled in
    issued,          \* the frame calls the submitFrame in progress has made, in order
    drained,         \* how often tryGetNextSessionState has returned false in the helper call in progress
    succeeded,       \* how many frame calls of each kind have returned success in that helper call
    duration,        \* the duration a CountdownTimer examined on its own was created with
    asked,           \* the answers IsTimeUp has given for that timer, in order
    params,          \* tp, the SwapchainCreateTestParameters of the format being looked at
    formatStep,      \* what the format loop has done with tp
    imageFormat,     \* the enumerated format the loop is at
    defaultFormat,   \* graphicsPlugin->GetSRGBA8Format()
    rendered,        \* the doInteractiveRenderTest calls made for imageFormat, over the runs of the test case
    range,           \* the argument the two queries on a ColorIntegerRange are called with
    bits,            \* what ColorIntegerRangeBits gave for it, once called
    isSigned,        \* what ColorIntegerRangeIsSigned gave for it, once called
    m_cacheMutex,    \* D3D11TextureCache: the thread that holds *m_cacheMutex (0: none)
    m_solidColorTextureCache,  \* D3D11TextureCache: the map, as its <<colorKey, texture>> entries
    call,            \* per thread, its CreateTypedSolidColorTexture call: position, arguments, locals
    created,         \* the textures D3D11Texture::CreateTexture has made, in order
    answers,         \* what the calls that have returned were asked and what they returned
    calls,           \* how many calls have been made so far
    viewType,        \* xrLocateViews test: the known view type of the DYNAMIC_SECTION this run enters
    valid,           \* IsViewConfigurationTypeEnumValid(viewType)
    runtimeViewTypes,  \* the view configuration types the runtime enumerates
    locateInfo,      \* the XrViewLocateInfo of the test case
    autoSession,     \* the AutoBasicSession: its viewConfigurationType, whether begun, its state
    locateStep,      \* how far the section has got
    result,          \* what xrLocateViews returned
    locateFailed,    \* an assertion of the section has failed
    referenceComponents,  \* MakeGradientMesh: its argument, a mask of RawColorComponents
    vertices,        \* MakeGradientMesh: the vertices pushed so far
    indices,         \* MakeGradientMesh: the indices pushed so far
    col,             \* MakeGradientMesh: the loop variable of the loop in progress
    meshStep         \* MakeGradientMesh: the loop in progress, or "made"

vars == <<scenario, probe, graphics, ip, pc, countdown, evt, cur, failed, failure, log,
          queue, rtState, running, exitRequested, ended, frameSubmitted, deviations, others,
          delivered, frameState, frameEndInfo, issued, drained, succeeded, duration, asked,
          params, formatStep, imageFormat, defaultFormat, rendered, range, bits, isSigned,
          m_cacheMutex, m_solidColorTextureCache, call, created, answers, calls,
          viewType, valid, runtimeViewTypes, locateInfo, autoSession, locateStep, result,
          locateFailed, referenceComponents, vertices, indices, col, meshStep>>

verifierVars == <<ip, pc, countdown, evt, cur, failed, failure, log>>
runtimeVars == <<queue, rtState, running, exitRequested, ended, frameSubmitted, deviations, others,
                 delivered>>
runVars == <<scenario, probe, graphics>>
frameVars == <<frameState, frameEndInfo, issued, drained, succeeded>>
timerVars == <<duration, asked>>
formatVars == <<params, formatStep, imageFormat, defaultFormat, rendered, range, bits, isSigned>>
cacheVars == <<m_cacheMutex, m_solidColorTextureCache, call, created, answers, calls>>
\* The state of the components that are examined on their own.
locateVars == <<viewType, valid, runtimeViewTypes, locateInfo, autoSession, locateStep, result,
                locateFailed>>
meshVars == <<referenceComponents, vertices, indices, col, meshStep>>
\* The state of the components that are examined on their own.
apartVars == <<timerVars, formatVars, cacheVars, locateVars, meshVars>>

\* GetGlobalData().GetOptions().environmentBlendModeValue: the configured
\* blend mode; no step of the test case depends on which one it is.
environmentBlendModeValue == "OPAQUE"

\* XrViewConfigurationType, as XR_LIST_ENUM_XrViewConfigurationType lists it.
PRIMARY_MONO == 1
PRIMARY_STEREO == 2
PRIMARY_STEREO_WITH_FOVEATED_INSET == 1000037000
SECONDARY_MONO_FIRST_PERSON_OBSERVER_MSFT == 1000054000

KnownViewTypes ==
    {PRIMARY_MONO, PRIMARY_STEREO, PRIMARY_STEREO_WITH_FOVEATED_INSET,
     SECONDARY_MONO_FIRST_PERSON_OBSERVER_MSFT}

\* The view configuration types of the core specification: valid whatever the
\* enabled extensions are.
CoreViewTypes == {PRIMARY_MONO, PRIMARY_STEREO}

\* XrViewLocateInfo locateInfo{XR_TYPE_VIEW_LOCATE_INFO}: every other member zero.
NoLocateInfo == [viewConfigurationType |-> 0, displayTime |-> 0]

\* The AutoBasicSession as the test case creates it: not begun, with the
\* view configuration type of the options.
SessionCreated == [viewConfigurationType |-> PRIMARY_STEREO, begun |-> 0, state |-> "READY"]

\* The xrLocateViews test case before its section runs: the members set here
\* do not depend on the section.
LocateNotRun ==
    /\ viewType = PRIMARY_STEREO
    /\ valid = TRUE
    /\ runtimeViewTypes = {}
    /\ locateInfo = NoLocateInfo
    /\ autoSession = SessionCreated
    /\ locateStep = "created"
    /\ result = "NONE"
    /\ locateFailed = FALSE

\* constexpr int32_t aspectRatio, gradientImageHeight, gradientImageWidth
aspectRatio == 8

gradientImageHeight == 32

gradientImageWidth == gradientImageHeight * aspectRatio

\* enum RawColorComponents : uint8_t, the bits of the mask
RawColorComponents == [r |-> 1, g |-> 2, b |-> 4, a |-> 8]

\* referenceComponents & component, as a truth value
HasComponent(mask, component) == (mask \div component) % 2 = 1

\* const uint16_t quadIndices[] = {1, 0, 2, 2, 3, 1}
quadIndices == <<1, 0, 2, 2, 3, 1>>

\* (uint16_t) of a non-negative int
uint16_t(n) == n % 65536

\* ColorUtils::FromSRGB on one channel: the sRGB transfer function, tabulated
\* for the inputs n / 256 (n = 0 .. 255) in units of 1 / 65535.
SRGBToLinear ==
    <<
       0, 20, 40, 59, 79, 99, 119, 139, 159, 178, 198, 218,
       240, 263, 286, 312, 338, 365, 394, 424, 456, 489, 523, 558,
       595, 633, 673, 714, 756, 800, 845, 892, 940, 990, 1041, 1094,
       1148, 1204, 1262, 1320, 1381, 1443, 1507, 1572, 1639, 1707, 1778, 1849,
       1923, 1998, 2075, 2154, 2234, 2316, 2400, 2485, 2572, 2661, 2752, 2845,
       2939, 3035, 3133, 3233, 3334, 3438, 3543, 3650, 3759, 3870, 3982, 4097,
       4214, 4332, 4452, 4575, 4699, 4825, 4953, 5083, 5215, 5349, 5485, 5623,
       5763, 5906, 6050, 6196, 6344, 6494, 6646, 6800, 6957, 7115, 7276, 7438,
       7603, 7770, 7939, 8110, 8283, 8458, 8636, 8816, 8997, 9181, 9367, 9556,
       9746, 9939, 10134, 10331, 10530, 10732, 10936, 11142, 11350, 11561, 11773, 11988,
       12206, 12425, 12647, 12872, 13098, 13327, 13558, 13791, 14027, 14265, 14506, 14749,
       14994, 15241, 15491, 15743, 15998, 16255, 16514, 16776, 17041, 17307, 17576, 17848,
       18122, 18398, 18677, 18958, 19242, 19528, 19816, 20108, 20401, 20697, 20996, 21297,
       21600, 21906, 22215, 22526, 22840, 23156, 23474, 23796, 24119, 24446, 24775, 25106,
       25440, 25777, 26116, 26458, 26802, 27149, 27499, 27851, 28206, 28563, 28923, 29286,
       29651, 30019, 30390, 30763, 31139, 31518, 31899, 32283, 32670, 33059, 33451, 33846,
       34243, 34644, 35046, 35452, 35860, 36271, 36685, 37102, 37521, 37943, 38368, 38795,
       39226, 39659, 40095, 40533, 40975, 41419, 41866, 42316, 42768, 43224, 43682, 44143,
       44607, 45073, 45543, 46015, 46491, 46969, 47450, 47934, 48420, 48910, 49402, 49897,
       50396, 50897, 51401, 51908, 52417, 52930, 53446, 53964, 54486, 55010, 55537, 56067,
       56601, 57137, 57676, 58218, 58763, 59311, 59862, 60415, 60972, 61532, 62095, 62661,
       63230, 63801, 64376, 64954
    >>

FromSRGB(n) == SRGBToLinear[n + 1]

\* MakeGradientMesh entered: both vectors empty.
MeshNotMade ==
    /\ referenceComponents = 0
    /\ vertices = <<>>
    /\ indices = <<>>
    /\ col = 0
    /\ meshStep = "entered"

\* The threads that use one D3D11TextureCache.
Threads == 1..MaxThreads

\* rgba, the four bytes LoadRGBAUI4(color) gives for the colours asked for:
\* opaque red, opaque blue.
Colours == {<<255, 0, 0, 255>>, <<0, 0, 255, 255>>}

\* colorKey = *reinterpret_cast<const uint32_t*>(rgba.data()), the four bytes
\* read as one unsigned 32-bit integer, lowest byte first; the value is kept
\* as its low and its high 16 bits, <<lo, hi>> standing for 65536 * hi + lo.
ColorKey(rgba) == <<rgba[1] + 256 * rgba[2], rgba[3] + 256 * rgba[4]>>

\* A thread that is not inside CreateTypedSolidColorTexture.
NoCall == [pc |-> "idle", rgba |-> <<0, 0, 0, 0>>, sRGB |-> FALSE, texture |-> 0]

\* D3D11TextureCache::D3D11TextureCache(): a mutex nobody holds, an empty map.
CacheConstructed ==
    /\ m_cacheMutex = 0
    /\ m_solidColorTextureCache = {}
    /\ call = [t \in Threads |-> NoCall]
    /\ created = <<>>
    /\ answers = {}
    /\ calls = 0

\* No frame call has returned success.
NoFrameCalls == [fn \in {"xrWaitFrame", "xrBeginFrame", "xrEndFrame"} |-> 0]

\* No XrFrameEndInfo has been filled in.
NoFrameEndInfo == [displayTime |-> 0, environmentBlendMode |-> "NONE"]

\* ------------------------------------------------------- scenario statements
WaitFor(s) == [op |-> "waitFor", arg |-> s, expect |-> "", hard |-> TRUE, sect |-> 0]
Window(cond) == [op |-> "window", arg |-> cond, expect |-> "", hard |-> TRUE, sect |-> 0]
SubmitUntil(s) == [op |-> "submitUntil", arg |-> s, expect |-> "", hard |-> TRUE, sect |-> 0]
RunTo(s) == [op |-> "runTo", arg |-> s, expect |-> "", hard |-> TRUE, sect |-> 0]
Require(fn, res) == [op |-> "call", arg |-> fn, expect |-> res, hard |-> TRUE, sect |-> 0]
SectionRequire(n, fn, res) == [op |-> "call", arg |-> fn, expect |-> res, hard |-> TRUE, sect |-> n]
SectionCheck(n, fn, res) == [op |-> "call", arg |-> fn, expect |-> res, hard |-> FALSE, sect |-> n]

\* Mutant: SYNCHRONIZED and VISIBLE awaited in the wrong order.
NormalOperation_Swapped ==
    << WaitFor("IDLE"),
       WaitFor("READY"),
       Require("xrBeginSession", "SUCCESS"),
       SubmitUntil("VISIBLE"),
       SubmitUntil("SYNCHRONIZED"),
       SubmitUntil("FOCUSED"),
       Require("xrEndSession", "SESSION_NOT_STOPPING"),
       Require("xrRequestExitSession", "SUCCESS"),
       SubmitUntil("VISIBLE"),
       SubmitUntil("SYNCHRONIZED"),
       SubmitUntil("STOPPING"),
       Window("always"),
       Require("xrEndSession", "SUCCESS"),
       SubmitUntil("IDLE"),
       SubmitUntil("EXITING") >>

\* Mutant: the xrEndSession that must fail is called after xrRequestExitSession.
NormalOperation_EndAfterExit ==
    << WaitFor("IDLE"),
       WaitFor("READY"),
       Require("xrBeginSession", "SUCCESS"),
       SubmitUntil("SYNCHRONIZED"),
       SubmitUntil("VISIBLE"),
       SubmitUntil("FOCUSED"),
       Require("xrRequestExitSession", "SUCCESS"),
       Require("xrEndSession", "SESSION_NOT_STOPPING"),
       SubmitUntil("VISIBLE"),
       SubmitUntil("SYNCHRONIZED"),
       SubmitUntil("STOPPING"),
       Window("always"),
       Require("xrEndSession", "SUCCESS"),
       SubmitUntil("IDLE"),
       SubmitUntil("EXITING") >>

\* Mutant: the scenario stops checking right after xrRequestExitSession.
NormalOperation_NoTeardown ==
    << WaitFor("IDLE"),
       WaitFor("READY"),
       Require("xrBeginSession", "SUCCESS"),
       SubmitUntil("SYNCHRONIZED"),
       SubmitUntil("VISIBLE"),
       SubmitUntil("FOCUSED"),
       Require("xrEndSession", "SESSION_NOT_STOPPING"),
       Require("xrRequestExitSession", "SUCCESS") >>

\* SECTION("Cycle through all states") / SECTION("Normal operation")
NormalOperation ==
    << WaitFor("IDLE"),
       WaitFor("READY"),
       Require("xrBeginSession", "SUCCESS"),
       SubmitUntil("SYNCHRONIZED"),
       SubmitUntil("VISIBLE"),
       SubmitUntil("FOCUSED"),
       Require("xrEndSession", "SESSION_NOT_STOPPING"),
       Require("xrRequestExitSession", "SUCCESS"),
       SubmitUntil("VISIBLE"),
       SubmitUntil("SYNCHRONIZED"),
       SubmitUntil("STOPPING"),
       Window("always"),
       Require("xrEndSession", "SUCCESS"),
       SubmitUntil("IDLE"),
       SubmitUntil("EXITING") >>

\* Mutant: xrBeginSession called once IDLE has been seen, before READY.
CycleThroughAllStates_BeginBeforeReady ==
    << WaitFor("IDLE"),
       Require("xrBeginSession", "SUCCESS"),
       WaitFor("READY"),
       SubmitUntil("SYNCHRONIZED"),
       SubmitUntil("VISIBLE"),
       SubmitUntil("FOCUSED"),
       Require("xrEndSession", "SESSION_NOT_STOPPING"),
       Require("xrRequestExitSession", "SUCCESS"),
       SubmitUntil("VISIBLE"),
       SubmitUntil("SYNCHRONIZED"),
       SubmitUntil("STOPPING"),
       Window("always"),
       Require("xrEndSession", "SUCCESS"),
       SubmitUntil("IDLE"),
       SubmitUntil("EXITING") >>

\* SECTION("Cycle through all states") of the second translation unit
CycleThroughAllStates ==
    << WaitFor("IDLE"),
       WaitFor("READY"),
       Require("xrBeginSession", "SUCCESS"),
       SubmitUntil("SYNCHRONIZED"),
       SubmitUntil("VISIBLE"),
       SubmitUntil("FOCUSED"),
       Require("xrEndSession", "SESSION_NOT_STOPPING"),
       Require("xrRequestExitSession", "SUCCESS"),
       SubmitUntil("VISIBLE"),
       SubmitUntil("SYNCHRONIZED"),
       SubmitUntil("STOPPING"),
       Window("always"),
       Require("xrEndSession", "SUCCESS"),
       SubmitUntil("IDLE"),
       SubmitUntil("EXITING") >>

\* Mutant: xrEndSession called without the one-second window after STOPPING.
TryCallsOutOfTurn_NoStoppingWindow ==
    << SectionRequire(1, "xrWaitFrame", "SESSION_NOT_RUNNING"),
       WaitFor("IDLE"),
       SectionCheck(2, "xrWaitFrame", "SESSION_NOT_RUNNING"),
       WaitFor("READY"),
       SectionRequire(3, "xrWaitFrame", "SESSION_NOT_RUNNING"),
       Require("xrBeginSession", "SUCCESS"),
       Window("graphics"),
       SectionRequire(4, "xrBeginSession", "SESSION_RUNNING"),
       SubmitUntil("SYNCHRONIZED"),
       SectionRequire(5, "xrBeginSession", "SESSION_RUNNING"),
       SubmitUntil("VISIBLE"),
       SectionRequire(6, "xrBeginSession", "SESSION_RUNNING"),
       SubmitUntil("FOCUSED"),
       SectionRequire(7, "xrBeginSession", "SESSION_RUNNING"),
       SectionRequire(8, "xrEndSession", "SESSION_NOT_STOPPING"),
       Require("xrRequestExitSession", "SUCCESS"),
       SectionRequire(9, "xrBeginSession", "SESSION_RUNNING"),
       SubmitUntil("VISIBLE"),
       SectionRequire(10, "xrBeginSession", "SESSION_RUNNING"),
       SubmitUntil("SYNCHRONIZED"),
       SectionRequire(11, "xrBeginSession", "SESSION_RUNNING"),
       SubmitUntil("STOPPING"),
       SectionRequire(12, "xrBeginSession", "SESSION_RUNNING"),
       Require("xrEndSession", "SUCCESS"),
       SectionCheck(13, "xrWaitFrame", "SESSION_NOT_RUNNING"),
       SubmitUntil("IDLE"),
       SectionCheck(14, "xrWaitFrame", "SESSION_NOT_RUNNING"),
       SubmitUntil("EXITING"),
       SectionCheck(15, "xrWaitFrame", "SESSION_NOT_RUNNING") >>

\* Mutant: the window after xrBeginSession opened without a graphics plugin too.
TryCallsOutOfTurn_WindowAlways ==
    << SectionRequire(1, "xrWaitFrame", "SESSION_NOT_RUNNING"),
       WaitFor("IDLE"),
       SectionCheck(2, "xrWaitFrame", "SESSION_NOT_RUNNING"),
       WaitFor("READY"),
       SectionRequire(3, "xrWaitFrame", "SESSION_NOT_RUNNING"),
       Require("xrBeginSession", "SUCCESS"),
       Window("always"),
       SectionRequire(4, "xrBeginSession", "SESSION_RUNNING"),
       SubmitUntil("SYNCHRONIZED"),
       SectionRequire(5, "xrBeginSession", "SESSION_RUNNING"),
       SubmitUntil("VISIBLE"),
       SectionRequire(6, "xrBeginSession", "SESSION_RUNNING"),
       SubmitUntil("FOCUSED"),
       SectionRequire(7, "xrBeginSession", "SESSION_RUNNING"),
       SectionRequire(8, "xrEndSession", "SESSION_NOT_STOPPING"),
       Require("xrRequestExitSession", "SUCCESS"),
       SectionRequire(9, "xrBeginSession", "SESSION_RUNNING"),
       SubmitUntil("VISIBLE"),
       SectionRequire(10, "xrBeginSession", "SESSION_RUNNING"),
       SubmitUntil("SYNCHRONIZED"),
       SectionRequire(11, "xrBeginSession", "SESSION_RUNNING"),
       SubmitUntil("STOPPING"),
       SectionRequire(12, "xrBeginSession", "SESSION_RUNNING"),
       Window("always"),
       Require("xrEndSession", "SUCCESS"),
       SectionCheck(13, "xrWaitFrame", "SESSION_NOT_RUNNING"),
       SubmitUntil("IDLE"),
       SectionCheck(14, "xrWaitFrame", "SESSION_NOT_RUNNING"),
       SubmitUntil("EXITING"),
       SectionCheck(15, "xrWaitFrame", "SESSION_NOT_RUNNING") >>

\* Mutant: the xrWaitFrame probe of READY made after xrBeginSession.
TryCallsOutOfTurn_WaitFrameAfterBegin ==
    << SectionRequire(1, "xrWaitFrame", "SESSION_NOT_RUNNING"),
       WaitFor("IDLE"),
       SectionCheck(2, "xrWaitFrame", "SESSION_NOT_RUNNING"),
       WaitFor("READY"),
       Require("xrBeginSession", "SUCCESS"),
       SectionRequire(3, "xrWaitFrame", "SESSION_NOT_RUNNING"),
       Window("graphics"),
       SectionRequire(4, "xrBeginSession", "SESSION_RUNNING"),
       SubmitUntil("SYNCHRONIZED"),
       SectionRequire(5, "xrBeginSession", "SESSION_RUNNING"),
       SubmitUntil("VISIBLE"),
       SectionRequire(6, "xrBeginSession", "SESSION_RUNNING"),
       SubmitUntil("FOCUSED"),
       SectionRequire(7, "xrBeginSession", "SESSION_RUNNING"),
       SectionRequire(8, "xrEndSession", "SESSION_NOT_STOPPING"),
       Require("xrRequestExitSession", "SUCCESS"),
       SectionRequire(9, "xrBeginSession", "SESSION_RUNNING"),
       SubmitUntil("VISIBLE"),
       SectionRequire(10, "xrBeginSession", "SESSION_RUNNING"),
       SubmitUntil("SYNCHRONIZED"),
       SectionRequire(11, "xrBeginSession", "SESSION_RUNNING"),
       SubmitUntil("STOPPING"),
       SectionRequire(12, "xrBeginSession", "SESSION_RUNNING"),
       Window("always"),
       Require("xrEndSession", "SUCCESS"),
       SectionCheck(13, "xrWaitFrame", "SESSION_NOT_RUNNING"),
       SubmitUntil("IDLE"),
       SectionCheck(14, "xrWaitFrame", "SESSION_NOT_RUNNING"),
       SubmitUntil("EXITING"),
       SectionCheck(15, "xrWaitFrame", "SESSION_NOT_RUNNING") >>

\* Mutant: the xrBeginSession probe of STOPPING made after xrEndSession.
TryCallsOutOfTurn_BeginAfterEnd ==
    << SectionRequire(1, "xrWaitFrame", "SESSION_NOT_RUNNING"),
       WaitFor("IDLE"),
       SectionCheck(2, "xrWaitFrame", "SESSION_NOT_RUNNING"),
       WaitFor("READY"),
       SectionRequire(3, "xrWaitFrame", "SESSION_NOT_RUNNING"),
       Require("xrBeginSession", "SUCCESS"),
       Window("graphics"),
       SectionRequire(4, "xrBeginSession", "SESSION_RUNNING"),
       SubmitUntil("SYNCHRONIZED"),
       SectionRequire(5, "xrBeginSession", "SESSION_RUNNING"),
       SubmitUntil("VISIBLE"),
       SectionRequire(6, "xrBeginSession", "SESSION_RUNNING"),
       SubmitUntil("FOCUSED"),
       SectionRequire(7, "xrBeginSession", "SESSION_RUNNING"),
       SectionRequire(8, "xrEndSession", "SESSION_NOT_STOPPING"),
       Require("xrRequestExitSession", "SUCCESS"),
       SectionRequire(9, "xrBeginSession", "SESSION_RUNNING"),
       SubmitUntil("VISIBLE"),
       SectionRequire(10, "xrBeginSession", "SESSION_RUNNING"),
       SubmitUntil("SYNCHRONIZED"),
       SectionRequire(11, "xrBeginSession", "SESSION_RUNNING"),
       SubmitUntil("STOPPING"),
       Window("always"),
       Require("xrEndSession", "SUCCESS"),
       SectionRequire(12, "xrBeginSession", "SESSION_RUNNING"),
       SectionCheck(13, "xrWaitFrame", "SESSION_NOT_RUNNING"),
       SubmitUntil("IDLE"),
       SectionCheck(14, "xrWaitFrame", "SESSION_NOT_RUNNING"),
       SubmitUntil("EXITING"),
       SectionCheck(15, "xrWaitFrame", "SESSION_NOT_RUNNING") >>

\* Mutant: the section entered in STOPPING makes a call that succeeds there.
TryCallsOutOfTurn_ProbeEndsSession ==
    << SectionRequire(1, "xrWaitFrame", "SESSION_NOT_RUNNING"),
       WaitFor("IDLE"),
       SectionCheck(2, "xrWaitFrame", "SESSION_NOT_RUNNING"),
       WaitFor("READY"),
       SectionRequire(3, "xrWaitFrame", "SESSION_NOT_RUNNING"),
       Require("xrBeginSession", "SUCCESS"),
       Window("graphics"),
       SectionRequire(4, "xrBeginSession", "SESSION_RUNNING"),
       SubmitUntil("SYNCHRONIZED"),
       SectionRequire(5, "xrBeginSession", "SESSION_RUNNING"),
       SubmitUntil("VISIBLE"),
       SectionRequire(6, "xrBeginSession", "SESSION_RUNNING"),
       SubmitUntil("FOCUSED"),
       SectionRequire(7, "xrBeginSession", "SESSION_RUNNING"),
       SectionRequire(8, "xrEndSession", "SESSION_NOT_STOPPING"),
       Require("xrRequestExitSession", "SUCCESS"),
       SectionRequire(9, "xrBeginSession", "SESSION_RUNNING"),
       SubmitUntil("VISIBLE"),
       SectionRequire(10, "xrBeginSession", "SESSION_RUNNING"),
       SubmitUntil("SYNCHRONIZED"),
       SectionRequire(11, "xrBeginSession", "SESSION_RUNNING"),
       SubmitUntil("STOPPING"),
       SectionRequire(12, "xrEndSession", "SUCCESS"),
       Window("always"),
       Require("xrEndSession", "SUCCESS"),
       SectionCheck(13, "xrWaitFrame", "SESSION_NOT_RUNNING"),
       SubmitUntil("IDLE"),
       SectionCheck(14, "xrWaitFrame", "SESSION_NOT_RUNNING"),
       SubmitUntil("EXITING"),
       SectionCheck(15, "xrWaitFrame", "SESSION_NOT_RUNNING") >>

\* SECTION("Cycle through all states") / SECTION("Try calls out of turn")
TryCallsOutOfTurn ==
    << SectionRequire(1, "xrWaitFrame", "SESSION_NOT_RUNNING"),
       WaitFor("IDLE"),
       SectionCheck(2, "xrWaitFrame", "SESSION_NOT_RUNNING"),
       WaitFor("READY"),
       SectionRequire(3, "xrWaitFrame", "SESSION_NOT_RUNNING"),
       Require("xrBeginSession", "SUCCESS"),
       Window("graphics"),
       SectionRequire(4, "xrBeginSession", "SESSION_RUNNING"),
       SubmitUntil("SYNCHRONIZED"),
       SectionRequire(5, "xrBeginSession", "SESSION_RUNNING"),
       SubmitUntil("VISIBLE"),
       SectionRequire(6, "xrBeginSession", "SESSION_RUNNING"),
       SubmitUntil("FOCUSED"),
       SectionRequire(7, "xrBeginSession", "SESSION_RUNNING"),
       SectionRequire(8, "xrEndSession", "SESSION_NOT_STOPPING"),
       Require("xrRequestExitSession", "SUCCESS"),
       SectionRequire(9, "xrBeginSession", "SESSION_RUNNING"),
       SubmitUntil("VISIBLE"),
       SectionRequire(10, "xrBeginSession", "SESSION_RUNNING"),
       SubmitUntil("SYNCHRONIZED"),
       SectionRequire(11, "xrBeginSession", "SESSION_RUNNING"),
       SubmitUntil("STOPPING"),
       SectionRequire(12, "xrBeginSession", "SESSION_RUNNING"),
       Window("always"),
       Require("xrEndSession", "SUCCESS"),
       SectionCheck(13, "xrWaitFrame", "SESSION_NOT_RUNNING"),
       SubmitUntil("IDLE"),
       SectionCheck(14, "xrWaitFrame", "SESSION_NOT_RUNNING"),
       SubmitUntil("EXITING"),
       SectionCheck(15, "xrWaitFrame", "SESSION_NOT_RUNNING") >>

NumProbes == 15

\* SECTION("xrRequestExitSession Session Not Running") / SECTION("Session not running before starting")
SessionNotRunningBeforeStarting ==
    << Require("xrRequestExitSession", "SESSION_NOT_RUNNING") >>

\* Mutant: the session is not ended before the last xrRequestExitSession.
SessionNotRunningAfterEnding_NoEnd ==
    << RunTo("READY"),
       Require("xrBeginSession", "SUCCESS"),
       Require("xrRequestExitSession", "SUCCESS"),
       RunTo("STOPPING"),
       Require("xrRequestExitSession", "SESSION_NOT_RUNNING") >>

\* SECTION("xrRequestExitSession Session Not Running") / SECTION("Session not running after ending")
\* The first two statements are AutoBasicSession(beginSession | ...).
SessionNotRunningAfterEnding ==
    << RunTo("READY"),
       Require("xrBeginSession", "SUCCESS"),
       Require("xrRequestExitSession", "SUCCESS"),
       RunTo("STOPPING"),
       Require("xrEndSession", "SUCCESS"),
       Require("xrRequestExitSession", "SESSION_NOT_RUNNING") >>

\* SECTION("Advance without frame submission"), registered only with a graphics plugin
AdvanceWithoutFrameSubmission ==
    << RunTo("READY"),
       Require("xrBeginSession", "SUCCESS"),
       Window("always") >>

Scenarios == {"Normal", "Cycle", "OutOfTurn", "ExitBefore", "ExitAfter", "Advance"}

Script ==
    CASE scenario = "Normal" -> NormalOperation
      [] scenario = "Cycle" -> CycleThroughAllStates
      [] scenario = "OutOfTurn" -> TryCallsOutOfTurn
      [] scenario = "ExitBefore" -> SessionNotRunningBeforeStarting
      [] scenario = "ExitAfter" -> SessionNotRunningAfterEnding
      [] OTHER -> AdvanceWithoutFrameSubmission

Stmt == Script[ip]

\* --------------------------------------------------------- the runtime
\* Result each call has on a runtime that keeps the session contract.
xrWaitFrame == IF running THEN "SUCCESS" ELSE "SESSION_NOT_RUNNING"

xrBeginFrame == IF running THEN "SUCCESS" ELSE "SESSION_NOT_RUNNING"

xrEndFrame == IF running THEN "SUCCESS" ELSE "SESSION_NOT_RUNNING"

xrBeginSession ==
    IF running THEN "SESSION_RUNNING"
    ELSE IF rtState = "READY" THEN "SUCCESS" ELSE "SESSION_NOT_READY"

xrEndSession ==
    IF ~running THEN "SESSION_NOT_RUNNING"
    ELSE IF rtState = "STOPPING" THEN "SUCCESS" ELSE "SESSION_NOT_STOPPING"

xrRequestExitSession == IF running THEN "SUCCESS" ELSE "SESSION_NOT_RUNNING"

\* xrWaitFrame's predictedDisplayTime: frames are counted from the start of
\* the helper call in progress, so no two frames of a call share a time.
PredictedDisplayTime == cur.frames + 1

\* xrPollEvent: success with the oldest queued event, or "no event available".
xrPollEvent == IF queue = <<>> THEN EventUnavailable ELSE "SUCCESS"

Conforming(fn) ==
    CASE fn = "xrWaitFrame" -> xrWaitFrame
      [] fn = "xrBeginFrame" -> xrBeginFrame
      [] fn = "xrEndFrame" -> xrEndFrame
      [] fn = "xrBeginSession" -> xrBeginSession
      [] fn = "xrEndSession" -> xrEndSession
      [] OTHER -> xrRequestExitSession

\* The results a call may return: the contract's, or any other while the
\* runtime still has a violation to commit.
ApiResults(fn) ==
    {Conforming(fn)} \cup (IF deviations < MaxDeviations THEN Results ELSE {})

\* What a call that returned res does to the runtime.
ApiEffect(fn, res) ==
    /\ deviations' = IF res = Conforming(fn) THEN deviations ELSE deviations + 1
    /\ running' = IF fn = "xrBeginSession" /\ res = "SUCCESS" THEN TRUE
                  ELSE IF fn = "xrEndSession" /\ res = "SUCCESS" THEN FALSE
                  ELSE running
    /\ ended' = (ended \/ (fn = "xrEndSession" /\ res = "SUCCESS"))
    /\ exitRequested' = (exitRequested \/ (fn = "xrRequestExitSession" /\ res = "SUCCESS"))
    /\ frameSubmitted' = IF fn = "xrBeginSession" /\ res = "SUCCESS" THEN FALSE
                         ELSE IF fn = "xrEndFrame" /\ res = "SUCCESS" THEN TRUE
                         ELSE frameSubmitted
    /\ UNCHANGED <<queue, rtState, others, delivered>>

\* The session lifecycle: the states the runtime may move to next.
NextStates ==
    CASE rtState = "UNKNOWN" -> {"IDLE"}
      [] rtState = "IDLE" -> IF ended THEN {"EXITING"} ELSE {"READY"}
      [] rtState = "READY" ->
            IF ~running THEN {}
            ELSE IF exitRequested THEN {"STOPPING"}
            ELSE IF frameSubmitted \/ ~graphics THEN {"SYNCHRONIZED"} ELSE {}
      [] rtState = "SYNCHRONIZED" ->
            IF ~running THEN {} ELSE IF exitRequested THEN {"STOPPING"} ELSE {"VISIBLE"}
      [] rtState = "VISIBLE" ->
            IF ~running THEN {} ELSE IF exitRequested THEN {"SYNCHRONIZED"} ELSE {"FOCUSED"}
      [] rtState = "FOCUSED" ->
            IF running /\ exitRequested THEN {"VISIBLE"} ELSE {}
      [] rtState = "STOPPING" -> IF ended /\ ~running THEN {"IDLE"} ELSE {}
      [] OTHER -> {}

\* The runtime runs concurrently with the driving thread, which observes it
\* only through xrPollEvent and the session and frame calls.  Its steps are
\* taken where the thread is about to make such a call or is asleep; a step
\* taken anywhere else is seen by the thread exactly as one taken there.
RuntimeRuns ==
    \/ pc \in {"poll", "sleep", "xrWaitFrame"}
    \/ /\ pc = "step" /\ ip <= Len(Script)
       /\ Stmt.op = "call" /\ (Stmt.sect = 0 \/ Stmt.sect = probe)

\* The runtime moves the session to its next state and reports it.
RuntimeAdvance ==
    /\ RuntimeRuns
    /\ \E s \in NextStates :
        /\ rtState' = s
        /\ queue' = Append(queue, s)
        /\ delivered' = Append(delivered, s)
    /\ UNCHANGED <<running, exitRequested, ended, frameSubmitted, deviations, others>>
    /\ UNCHANGED verifierVars
    /\ UNCHANGED runVars
    /\ UNCHANGED apartVars
    /\ UNCHANGED frameVars

\* The runtime reports a state the lifecycle does not allow now.
RuntimeDeviate ==
    /\ RuntimeRuns
    /\ deviations < MaxDeviations
    /\ \E s \in States \ NextStates :
        /\ rtState' = s
        /\ queue' = Append(queue, s)
        /\ delivered' = Append(delivered, s)
    /\ deviations' = deviations + 1
    /\ UNCHANGED <<running, exitRequested, ended, frameSubmitted, others>>
    /\ UNCHANGED verifierVars
    /\ UNCHANGED runVars
    /\ UNCHANGED apartVars
    /\ UNCHANGED frameVars

\* The runtime enqueues an event that is not a session-state-changed event.
RuntimeOtherEvent ==
    /\ RuntimeRuns
    /\ others < MaxOtherEvents
    /\ queue' = Append(queue, OtherEvent)
    /\ others' = others + 1
    /\ UNCHANGED <<rtState, running, exitRequested, ended, frameSubmitted, deviations, delivered>>
    /\ UNCHANGED verifierVars
    /\ UNCHANGED runVars
    /\ UNCHANGED apartVars
    /\ UNCHANGED frameVars

\* --------------------------------------------------------- the verifier
\* One line of the run's record: a consumed event (a: its state, b: the helper
\* that read it), a session call (a: the function, b: its result) or a window
\* that stayed empty; at: the statement, n: how many events had been consumed
\* before.
Entry(k, a, b) ==
    [k |-> k, a |-> a, b |-> b, at |-> ip,
     n |-> Cardinality({j \in DOMAIN log : log[j].k = "evt"})]

\* Mutant: REQUIRE written as CHECK, the failure is recorded and the run goes on.
Abort_Continues(reason) ==
    /\ failed' = TRUE
    /\ failure' = IF failed THEN failure ELSE reason
    /\ ip' = ip + 1
    /\ pc' = IF ip + 1 > Len(Script) THEN "done" ELSE "step"

\* A REQUIRE that fails, FAIL, or an exception: the run is over.
Abort(reason) ==
    /\ failed' = TRUE
    /\ failure' = IF failed THEN failure ELSE reason
    /\ pc' = "done"
    /\ ip' = ip

\* The statement is complete: go to the next one.
Continue ==
    /\ ip' = ip + 1
    /\ pc' = IF ip + 1 > Len(Script) THEN "done" ELSE "step"

AtStatement(op) == pc = "step" /\ ip <= Len(Script) /\ Stmt.op = op

\* A SECTION that this run does not enter, or the window skipped without graphics.
SkipSection ==
    /\ pc = "step" /\ ip <= Len(Script)
    /\ \/ Stmt.op = "call" /\ Stmt.sect # 0 /\ Stmt.sect # probe
       \/ Stmt.op = "window" /\ Stmt.arg = "graphics" /\ ~graphics
    /\ Continue
    /\ UNCHANGED <<countdown, evt, cur, failed, failure, log>>
    /\ UNCHANGED runtimeVars
    /\ UNCHANGED runVars
    /\ UNCHANGED apartVars
    /\ UNCHANGED frameVars

\* REQUIRE(expected == xrCall(session)) and CHECK(expected == xrCall(session))
SessionCall ==
    /\ AtStatement("call")
    /\ Stmt.sect = 0 \/ Stmt.sect = probe
    /\ \E res \in ApiResults(Stmt.arg) :
        /\ ApiEffect(Stmt.arg, res)
        /\ log' = Append(log, Entry("call", Stmt.arg, res))
        /\ IF res = Stmt.expect
             THEN Continue /\ UNCHANGED <<failed, failure>>
             ELSE IF Stmt.hard
                    THEN Abort("wrong_result")
                    ELSE /\ Continue
                         /\ failed' = TRUE
                         /\ failure' = IF failed THEN failure ELSE "wrong_result"
    /\ UNCHANGED <<countdown, evt, cur>>
    /\ UNCHANGED runVars
    /\ UNCHANGED apartVars
    /\ UNCHANGED frameVars

\* Entry of waitForNextSessionState: CountdownTimer countdown(duration)
waitForNextSessionState ==
    /\ \/ AtStatement("waitFor")
       \/ AtStatement("window") /\ (Stmt.arg = "always" \/ graphics)
    /\ countdown' = WaitTicks
    /\ cur' = [fn |-> Stmt.op, arg |-> Stmt.arg, ret |-> "active", frames |-> 0, read |-> "NONE"]
    /\ pc' = "check"
    /\ UNCHANGED <<ip, evt, failed, failure, log>>
    /\ UNCHANGED runtimeVars
    /\ UNCHANGED runVars
    /\ UNCHANGED apartVars
    /\ drained' = 0
    /\ succeeded' = NoFrameCalls
    /\ UNCHANGED <<frameState, frameEndInfo, issued>>

\* Entry of submitFramesUntilSessionState: CountdownTimer countdown(duration)
submitFramesUntilSessionState ==
    /\ AtStatement("submitUntil")
    /\ countdown' = SubmitTicks
    /\ cur' = [fn |-> "submitUntil", arg |-> Stmt.arg, ret |-> "active", frames |-> 0, read |-> "NONE"]
    /\ pc' = "check"
    /\ UNCHANGED <<ip, evt, failed, failure, log>>
    /\ UNCHANGED runtimeVars
    /\ UNCHANGED runVars
    /\ UNCHANGED apartVars
    /\ drained' = 0
    /\ succeeded' = NoFrameCalls
    /\ UNCHANGED <<frameState, frameEndInfo, issued>>

\* Entry of FrameIterator::RunToSessionState
RunToSessionState ==
    /\ AtStatement("runTo")
    /\ countdown' = RunTicks
    /\ cur' = [fn |-> "runTo", arg |-> Stmt.arg, ret |-> "active", frames |-> 0, read |-> "NONE"]
    /\ pc' = "check"
    /\ UNCHANGED <<ip, evt, failed, failure, log>>
    /\ UNCHANGED runtimeVars
    /\ UNCHANGED runVars
    /\ UNCHANGED apartVars
    /\ drained' = 0
    /\ succeeded' = NoFrameCalls
    /\ UNCHANGED <<frameState, frameEndInfo, issued>>

\* Mutant: the expiry test is strict, a timer of zero duration never expires.
IsTimeUp_ZeroNotExpired == countdown = 0 /\ duration > 0

\* CountdownTimer::IsTimeUp
IsTimeUp == countdown = 0

\* Mutant: the loop body is entered without the countdown being tested.
LoopBody_NoTest ==
    /\ pc = "check"
    /\ pc' = "poll"
    /\ UNCHANGED <<ip, countdown, evt, cur, failed, failure, log>>
    /\ UNCHANGED runtimeVars
    /\ UNCHANGED runVars
    /\ UNCHANGED apartVars
    /\ UNCHANGED frameVars

\* while (!countdown.IsTimeUp()), time not up: enter the loop body
LoopBody ==
    /\ pc = "check"
    /\ ~IsTimeUp
    /\ pc' = "poll"
    /\ UNCHANGED <<ip, countdown, evt, cur, failed, failure, log>>
    /\ UNCHANGED runtimeVars
    /\ UNCHANGED runVars
    /\ UNCHANGED apartVars
    /\ UNCHANGED frameVars

\* waitForNextSessionState: time is up, return false
waitForNextSessionState_TimeUp ==
    /\ pc = "check"
    /\ IsTimeUp
    /\ cur.fn \in {"waitFor", "window"}
    /\ cur' = [cur EXCEPT !.ret = "false"]
    /\ IF cur.fn = "window"
         THEN /\ Continue
              /\ log' = Append(log, Entry("window", "empty", ""))
              /\ UNCHANGED <<failed, failure>>
         ELSE /\ Abort("timeout")
              /\ UNCHANGED log
    /\ UNCHANGED <<countdown, evt>>
    /\ UNCHANGED runtimeVars
    /\ UNCHANGED runVars
    /\ UNCHANGED apartVars
    /\ UNCHANGED frameVars

\* Mutant: the FAIL after the loop is missing, the helper returns when time is up.
submitFramesUntilSessionState_TimeUp_Returns ==
    /\ pc = "check"
    /\ IsTimeUp
    /\ cur.fn = "submitUntil"
    /\ cur' = [cur EXCEPT !.ret = "return"]
    /\ Continue
    /\ UNCHANGED <<countdown, evt, failed, failure, log>>
    /\ UNCHANGED runtimeVars
    /\ UNCHANGED runVars
    /\ UNCHANGED apartVars
    /\ UNCHANGED frameVars

\* submitFramesUntilSessionState: time is up, FAIL("Failed to reach expected session state")
submitFramesUntilSessionState_TimeUp ==
    /\ pc = "check"
    /\ IsTimeUp
    /\ cur.fn = "submitUntil"
    /\ cur' = [cur EXCEPT !.ret = "fail"]
    /\ Abort("timeout")
    /\ UNCHANGED <<countdown, evt, log>>
    /\ UNCHANGED runtimeVars
    /\ UNCHANGED runVars
    /\ UNCHANGED apartVars
    /\ UNCHANGED frameVars

\* RunToSessionState: time is up, the result is returned and ignored by the caller
RunToSessionState_TimeUp ==
    /\ pc = "check"
    /\ IsTimeUp
    /\ cur.fn = "runTo"
    /\ cur' = [cur EXCEPT !.ret = "false"]
    /\ Continue
    /\ UNCHANGED <<countdown, evt, failed, failure, log>>
    /\ UNCHANGED runtimeVars
    /\ UNCHANGED runVars
    /\ UNCHANGED apartVars
    /\ UNCHANGED frameVars

\* tryReadEvent: return res == XR_SUCCESS
tryReadEvent(res) == res = "SUCCESS"

\* Mutant: the failed poll is taken for an empty queue, tryReadEvent returns false.
tryReadEvent_Throw_Swallowed ==
    /\ pc = "poll"
    /\ deviations < MaxDeviations
    /\ deviations' = deviations + 1
    /\ pc' = IF cur.fn \in {"waitFor", "window"} THEN "sleep" ELSE "xrWaitFrame"
    /\ UNCHANGED <<ip, cur, failed, failure>>
    /\ UNCHANGED <<countdown, evt, log>>
    /\ UNCHANGED <<queue, rtState, running, exitRequested, ended, frameSubmitted, others, delivered>>
    /\ UNCHANGED runVars
    /\ UNCHANGED apartVars
    /\ UNCHANGED frameVars

\* tryReadEvent: xrPollEvent fails, XRC_CHECK_THROW_XRCMD throws
tryReadEvent_Throw ==
    /\ pc = "poll"
    /\ deviations < MaxDeviations
    /\ \E res \in Results : XR_FAILED(res)
    /\ deviations' = deviations + 1
    /\ cur' = [cur EXCEPT !.ret = "throw"]
    /\ Abort("xr_error")
    /\ UNCHANGED <<countdown, evt, log>>
    /\ UNCHANGED <<queue, rtState, running, exitRequested, ended, frameSubmitted, others, delivered>>
    /\ UNCHANGED runVars
    /\ UNCHANGED apartVars
    /\ UNCHANGED frameVars

\* Mutant: every event counts as a session-state-changed event.
IsSessionStateChanged_Any(buffer) == TRUE

\* buffer.type == XR_TYPE_EVENT_DATA_SESSION_STATE_CHANGED
IsSessionStateChanged(buffer) == buffer # OtherEvent

\* Mutant: the type test is missing from the loop, whatever is read is dropped.
tryGetNextSessionState_Discard_Any ==
    /\ pc = "poll"
    /\ tryReadEvent(xrPollEvent)
    /\ queue # <<>>
    /\ queue' = Tail(queue)
    /\ UNCHANGED verifierVars
    /\ UNCHANGED <<rtState, running, exitRequested, ended, frameSubmitted, deviations, others, delivered>>
    /\ UNCHANGED runVars
    /\ UNCHANGED apartVars
    /\ UNCHANGED frameVars

\* tryGetNextSessionState: tryReadEvent returns an event of another type, which is dropped
tryGetNextSessionState_Discard ==
    /\ pc = "poll"
    /\ tryReadEvent(xrPollEvent)
    /\ queue # <<>>
    /\ ~IsSessionStateChanged(Head(queue))
    /\ queue' = Tail(queue)
    /\ UNCHANGED verifierVars
    /\ UNCHANGED <<rtState, running, exitRequested, ended, frameSubmitted, deviations, others, delivered>>
    /\ UNCHANGED runVars
    /\ UNCHANGED apartVars
    /\ UNCHANGED frameVars

\* Mutant: the comparison dropped, any state event is taken for the expected one.
StateMatches_Any(state, expected) == state \in States

\* The comparison REQUIRE(evt.state == expectedSessionState)
StateMatches(state, expected) == state = expected

\* Mutant: submitFramesUntilSessionState takes a state other than the expected
\* one for a reason to go on, and tests the countdown again.
tryGetNextSessionState_Found_Retry ==
    /\ pc = "poll"
    /\ tryReadEvent(xrPollEvent)
    /\ queue # <<>>
    /\ IsSessionStateChanged(Head(queue))
    /\ queue' = Tail(queue)
    /\ evt' = Head(queue)
    /\ log' = Append(log, Entry("evt", Head(queue), cur.fn))
    /\ CASE cur.fn = "waitFor" ->
              /\ cur' = [cur EXCEPT !.ret = "true", !.read = Head(queue)]
              /\ IF StateMatches(Head(queue), cur.arg)
                   THEN Continue /\ UNCHANGED <<failed, failure>>
                   ELSE Abort("unexpected_state")
         [] cur.fn = "window" ->
              /\ cur' = [cur EXCEPT !.ret = "true", !.read = Head(queue)]
              /\ Abort("premature")
         [] cur.fn = "submitUntil" ->
              IF StateMatches(Head(queue), cur.arg)
                THEN /\ cur' = [cur EXCEPT !.ret = "return", !.read = Head(queue)]
                     /\ Continue
                     /\ UNCHANGED <<failed, failure>>
                ELSE /\ cur' = [cur EXCEPT !.read = Head(queue)]
                     /\ pc' = "check"
                     /\ UNCHANGED <<ip, failed, failure>>
         [] OTHER ->
              IF Head(queue) = cur.arg
                THEN /\ cur' = [cur EXCEPT !.ret = "true", !.read = Head(queue)]
                     /\ Continue
                     /\ UNCHANGED <<failed, failure>>
                ELSE /\ cur' = [cur EXCEPT !.read = Head(queue)]
                     /\ UNCHANGED <<ip, pc, failed, failure>>
    /\ UNCHANGED countdown
    /\ UNCHANGED <<rtState, running, exitRequested, ended, frameSubmitted, deviations, others, delivered>>
    /\ UNCHANGED runVars
    /\ UNCHANGED apartVars
    /\ UNCHANGED frameVars

\* tryGetNextSessionState returns true with a session-state-changed event;
\* the caller's reaction to it is part of the step.
tryGetNextSessionState_Found ==
    /\ pc = "poll"
    /\ tryReadEvent(xrPollEvent)
    /\ queue # <<>>
    /\ IsSessionStateChanged(Head(queue))
    /\ queue' = Tail(queue)
    /\ evt' = Head(queue)
    /\ log' = Append(log, Entry("evt", Head(queue), cur.fn))
    /\ CASE cur.fn = "waitFor" ->
              /\ cur' = [cur EXCEPT !.ret = "true", !.read = Head(queue)]
              /\ IF StateMatches(Head(queue), cur.arg)
                   THEN Continue /\ UNCHANGED <<failed, failure>>
                   ELSE Abort("unexpected_state")
         [] cur.fn = "window" ->
              /\ cur' = [cur EXCEPT !.ret = "true", !.read = Head(queue)]
              /\ Abort("premature")
         [] cur.fn = "submitUntil" ->
              IF StateMatches(Head(queue), cur.arg)
                THEN /\ cur' = [cur EXCEPT !.ret = "return", !.read = Head(queue)]
                     /\ Continue
                     /\ UNCHANGED <<failed, failure>>
                ELSE /\ cur' = [cur EXCEPT !.ret = "fail", !.read = Head(queue)]
                     /\ Abort("unexpected_state")
         [] OTHER ->
              IF Head(queue) = cur.arg
                THEN /\ cur' = [cur EXCEPT !.ret = "true", !.read = Head(queue)]
                     /\ Continue
                     /\ UNCHANGED <<failed, failure>>
                ELSE /\ cur' = [cur EXCEPT !.read = Head(queue)]
                     /\ UNCHANGED <<ip, pc, failed, failure>>
    /\ UNCHANGED countdown
    /\ UNCHANGED <<rtState, running, exitRequested, ended, frameSubmitted, deviations, others, delivered>>
    /\ UNCHANGED runVars
    /\ UNCHANGED apartVars
    /\ UNCHANGED frameVars

\* Mutant: every helper sleeps after a poll that found nothing.
tryGetNextSessionState_Drained_Sleeps ==
    /\ pc = "poll"
    /\ ~XR_FAILED(xrPollEvent)
    /\ ~tryReadEvent(xrPollEvent)
    /\ pc' = "sleep"
    /\ UNCHANGED <<ip, countdown, evt, cur, failed, failure, log>>
    /\ UNCHANGED runtimeVars
    /\ UNCHANGED runVars
    /\ UNCHANGED apartVars
    /\ drained' = drained + 1
    /\ UNCHANGED <<frameState, frameEndInfo, issued, succeeded>>

\* tryGetNextSessionState returns false: the queue is drained
tryGetNextSessionState_Drained ==
    /\ pc = "poll"
    /\ ~XR_FAILED(xrPollEvent)
    /\ ~tryReadEvent(xrPollEvent)
    /\ pc' = CASE cur.fn \in {"waitFor", "window"} -> "sleep"
               [] cur.fn = "submitUntil" -> "xrWaitFrame"
               [] OTHER -> IF running THEN "xrWaitFrame" ELSE "sleep"
    /\ UNCHANGED <<ip, countdown, evt, cur, failed, failure, log>>
    /\ UNCHANGED runtimeVars
    /\ UNCHANGED runVars
    /\ UNCHANGED apartVars
    /\ drained' = drained + 1
    /\ UNCHANGED <<frameState, frameEndInfo, issued, succeeded>>

Elapse(ticks) == IF countdown > ticks THEN countdown - ticks ELSE 0

\* Mutant: after the sleep the loop polls again without testing the countdown.
sleep_for_NoRecheck ==
    /\ pc = "sleep"
    /\ countdown' = Elapse(1)
    /\ pc' = "poll"
    /\ UNCHANGED <<ip, evt, cur, failed, failure, log>>
    /\ UNCHANGED runtimeVars
    /\ UNCHANGED runVars
    /\ UNCHANGED apartVars
    /\ UNCHANGED frameVars

\* std::this_thread::sleep_for(5ms)
sleep_for ==
    /\ pc = "sleep"
    /\ countdown' = Elapse(1)
    /\ pc' = "check"
    /\ UNCHANGED <<ip, evt, cur, failed, failure, log>>
    /\ UNCHANGED runtimeVars
    /\ UNCHANGED runVars
    /\ UNCHANGED apartVars
    /\ UNCHANGED frameVars

\* Mutant: the display time kept from the frame before.
BuildFrameEndInfo_Stale ==
    [displayTime |-> cur.frames, environmentBlendMode |-> environmentBlendModeValue]

\* frameEndInfo.displayTime = frameState.predictedDisplayTime;
\* frameEndInfo.environmentBlendMode = ...environmentBlendModeValue;
BuildFrameEndInfo ==
    [displayTime |-> frameState, environmentBlendMode |-> environmentBlendModeValue]

\* Mutant: a failed frame call is tried again.
FrameCall_Retry(fn, at, next, ticks) ==
    /\ pc = at
    /\ \E res \in ApiResults(fn) :
        /\ ApiEffect(fn, res)
        /\ issued' = Append(issued, fn)
        /\ IF XR_FAILED(res)
             THEN /\ pc' = at
                  /\ countdown' = Elapse(1)
                  /\ UNCHANGED <<ip, cur, failed, failure, frameState, frameEndInfo, succeeded>>
             ELSE /\ pc' = next
                  /\ countdown' = Elapse(ticks)
                  /\ cur' = IF fn = "xrEndFrame" THEN [cur EXCEPT !.frames = @ + 1] ELSE cur
                  /\ frameState' = IF fn = "xrWaitFrame" THEN PredictedDisplayTime ELSE frameState
                  /\ frameEndInfo' = IF fn = "xrBeginFrame" THEN BuildFrameEndInfo ELSE frameEndInfo
                  /\ succeeded' = [succeeded EXCEPT ![fn] = @ + 1]
                  /\ UNCHANGED <<ip, failed, failure>>
    /\ UNCHANGED <<evt, log, drained>>
    /\ UNCHANGED runVars
    /\ UNCHANGED apartVars

\* Mutant: the result of the frame call is not checked.
FrameCall_Unchecked(fn, at, next, ticks) ==
    /\ pc = at
    /\ \E res \in ApiResults(fn) :
        /\ ApiEffect(fn, res)
        /\ pc' = next
        /\ countdown' = Elapse(ticks)
        /\ cur' = IF fn = "xrEndFrame" THEN [cur EXCEPT !.frames = @ + 1] ELSE cur
        /\ issued' = IF fn = "xrEndFrame" THEN <<>> ELSE Append(issued, fn)
        /\ succeeded' = IF XR_FAILED(res) THEN succeeded ELSE [succeeded EXCEPT ![fn] = @ + 1]
        /\ frameState' = IF fn = "xrWaitFrame" THEN PredictedDisplayTime
                         ELSE IF fn = "xrEndFrame" THEN 0 ELSE frameState
        /\ frameEndInfo' = IF fn = "xrBeginFrame" THEN BuildFrameEndInfo
                           ELSE IF fn = "xrEndFrame" THEN NoFrameEndInfo ELSE frameEndInfo
        /\ UNCHANGED <<ip, failed, failure>>
    /\ UNCHANGED <<evt, log, drained>>
    /\ UNCHANGED runVars
    /\ UNCHANGED apartVars

\* One XRC_CHECK_THROW_XRCMD(xrCall(...)) of submitFrame.  The locals
\* frameState and frameEndInfo are gone when submitFrame has returned.
FrameCall(fn, at, next, ticks) ==
    /\ pc = at
    /\ \E res \in ApiResults(fn) :
        /\ ApiEffect(fn, res)
        /\ IF XR_FAILED(res)
             THEN /\ Abort("xr_error")
                  /\ cur' = [cur EXCEPT !.ret = "throw"]
                  /\ issued' = Append(issued, fn)
                  /\ UNCHANGED <<countdown, frameState, frameEndInfo, succeeded>>
             ELSE /\ pc' = next
                  /\ countdown' = Elapse(ticks)
                  /\ cur' = IF fn = "xrEndFrame" THEN [cur EXCEPT !.frames = @ + 1] ELSE cur
                  /\ issued' = IF fn = "xrEndFrame" THEN <<>> ELSE Append(issued, fn)
                  /\ frameState' = IF fn = "xrWaitFrame" THEN PredictedDisplayTime
                                   ELSE IF fn = "xrEndFrame" THEN 0 ELSE frameState
                  /\ frameEndInfo' = IF fn = "xrBeginFrame" THEN BuildFrameEndInfo
                                     ELSE IF fn = "xrEndFrame" THEN NoFrameEndInfo ELSE frameEndInfo
                  /\ succeeded' = [succeeded EXCEPT ![fn] = @ + 1]
                  /\ UNCHANGED <<ip, failed, failure>>
    /\ UNCHANGED <<evt, log, drained>>
    /\ UNCHANGED runVars
    /\ UNCHANGED apartVars

submitFrame_xrWaitFrame == FrameCall("xrWaitFrame", "xrWaitFrame", "xrBeginFrame", 1)

submitFrame_xrBeginFrame == FrameCall("xrBeginFrame", "xrBeginFrame", "xrEndFrame", 0)

\* Mutant: submitFrame is called in a loop of its own, frame after frame.
submitFrame_xrEndFrame_NoPoll == FrameCall("xrEndFrame", "xrEndFrame", "xrWaitFrame", 0)

submitFrame_xrEndFrame == FrameCall("xrEndFrame", "xrEndFrame", "check", 0)

\* ------------------------------------------------------------ specification
Init ==
    /\ scenario \in Scenarios
    /\ graphics \in BOOLEAN
    /\ scenario = "Advance" => graphics
    /\ probe \in IF scenario = "OutOfTurn" THEN 1..NumProbes ELSE {0}
    /\ ip = 1
    /\ pc = "step"
    /\ countdown = 0
    /\ evt = "NONE"
    /\ cur = [fn |-> "none", arg |-> "NONE", ret |-> "none", frames |-> 0, read |-> "NONE"]
    /\ failed = FALSE
    /\ failure = "none"
    /\ log = <<>>
    /\ queue = <<>>
    /\ rtState = "UNKNOWN"
    /\ running = FALSE
    /\ exitRequested = FALSE
    /\ ended = FALSE
    /\ frameSubmitted = FALSE
    /\ deviations = 0
    /\ others = 0
    /\ delivered = <<>>
    /\ frameState = 0
    /\ frameEndInfo = NoFrameEndInfo
    /\ issued = <<>>
    /\ drained = 0
    /\ succeeded = NoFrameCalls
    /\ duration = 0
    /\ asked = <<>>
    /\ params = NoParameters
    /\ formatStep = "declared"
    /\ imageFormat = 1 /\ defaultFormat = 1 /\ rendered = <<>>
    /\ range = NoIntegerColor
    /\ bits = Unset
    /\ isSigned = Unset
    /\ CacheConstructed
    /\ LocateNotRun
    /\ MeshNotMade

Next ==
    \/ SkipSection
    \/ SessionCall
    \/ waitForNextSessionState
    \/ submitFramesUntilSessionState
    \/ RunToSessionState
    \/ LoopBody
    \/ waitForNextSessionState_TimeUp
    \/ submitFramesUntilSessionState_TimeUp
    \/ RunToSessionState_TimeUp
    \/ tryReadEvent_Throw
    \/ tryGetNextSessionState_Discard
    \/ tryGetNextSessionState_Found
    \/ tryGetNextSessionState_Drained
    \/ sleep_for
    \/ submitFrame_xrWaitFrame
    \/ submitFrame_xrBeginFrame
    \/ submitFrame_xrEndFrame
    \/ RuntimeAdvance
    \/ RuntimeDeviate
    \/ RuntimeOtherEvent

Spec == Init /\ [][Next]_vars

TypeOK ==
    /\ scenario \in Scenarios
    /\ pc \in {"step", "check", "poll", "sleep", "xrWaitFrame", "xrBeginFrame", "xrEndFrame", "done"}
    /\ countdown \in 0..(SubmitTicks + WaitTicks + RunTicks)
    /\ deviations \in 0..MaxDeviations

\* ------------------------------------------------------ reading the record
Passed == pc = "done" /\ ~failed

Aborted == pc = "done" /\ failed

IsEvt(i) == log[i].k = "evt"

IsCall(i, fn) == log[i].k = "call" /\ log[i].a = fn

IsWindow(i) == log[i].k = "window"

\* The result the scenario demands of the call recorded at i.
Expected(i) == Script[log[i].at].expect

EvtIndices == {i \in DOMAIN log : IsEvt(i)}

\* Number of session-state-changed events consumed before record line i.
EvtsBefore(i) == log[i].n

IsEvtEntry(e) == e.k = "evt"

\* The states of the consumed session-state-changed events, in order.
Consumed ==
    LET evts == SelectSeq(log, IsEvtEntry)
    IN  [n \in 1..Len(evts) |-> evts[n].a]

IsPrefix(s, t) == Len(s) <= Len(t) /\ \A i \in 1..Len(s) : s[i] = t[i]

Front(s) == SubSeq(s, 1, Len(s) - 1)

Min(a, b) == IF a < b THEN a ELSE b

\* By the calls made so far: begun with success and not yet ended with success.
RunningAt(i) ==
    \E b \in 1..(i - 1) :
        /\ IsCall(b, "xrBeginSession") /\ log[b].b = "SUCCESS"
        /\ ~\E e \in (b + 1)..(i - 1) : IsCall(e, "xrEndSession") /\ log[e].b = "SUCCESS"

Forward == <<"IDLE", "READY", "SYNCHRONIZED", "VISIBLE", "FOCUSED">>

Teardown == <<"VISIBLE", "SYNCHRONIZED", "STOPPING", "IDLE", "EXITING">>

Lifecycle == Forward \o Teardown

Walks == {"Normal", "Cycle", "OutOfTurn"}

\* ------------------------------------------------------------------ claims

\* C1: submitFramesUntilSessionState returns normally only when the one
\* session-state-changed event it read has exactly the expected state; a
\* different state, an expired deadline or a failed frame call ends the run
\* in a failure, and the call reads at most that one state event.
C1_ReturnsOnlyOnExpectedState ==
    cur.fn = "submitUntil" =>
        /\ cur.ret = "return" => cur.read = cur.arg /\ evt = cur.arg
        /\ (cur.read # "NONE" /\ cur.read # cur.arg) => cur.ret = "fail" /\ Aborted
        /\ cur.ret \in {"fail", "throw"} => Aborted
        /\ cur.ret = "active" => cur.read = "NONE" /\ pc # "done"
        /\ cur.ret \in {"return", "fail", "throw", "active"}

C1_Witness ==
    /\ cur.fn = "submitUntil" /\ cur.ret = "return"
    /\ cur.arg = "STOPPING" /\ cur.frames > 0

\* C2: in "Normal operation" (and the second unit's "Cycle through all
\* states") the run gets past the forward phase only with the consumed events
\* being IDLE, READY, SYNCHRONIZED, VISIBLE, FOCUSED in that order, and the
\* first consumed event that deviates from that order ends the run in failure.
C2_ForwardSequenceExact ==
    scenario \in {"Normal", "Cycle"} =>
        LET c == SubSeq(Consumed, 1, Min(Len(Consumed), Len(Forward))) IN
        /\ \/ IsPrefix(c, Forward)
           \/ /\ Aborted /\ Len(Consumed) <= Len(Forward)
              /\ IsPrefix(Front(c), Forward)
              /\ log[Len(log)].k = "evt"
        /\ ip > 6 => c = Forward

C2_Witness ==
    scenario = "Normal" /\ ip = 7 /\ pc = "step" /\ Consumed = Forward /\ ~failed

\* C3: after xrRequestExitSession has succeeded in FOCUSED, the run passes
\* only with the consumed events continuing VISIBLE, SYNCHRONIZED, STOPPING,
\* IDLE, EXITING, the successful xrEndSession lying between the STOPPING and
\* the IDLE event; the first event that deviates ends the run in failure.
C3_TeardownSequenceExact ==
    (scenario \in {"Normal", "Cycle"} /\ ip > 8) =>
        /\ \/ IsPrefix(Consumed, Lifecycle)
           \/ /\ Aborted
              /\ IsPrefix(Front(Consumed), Lifecycle)
              /\ log[Len(log)].k = "evt"
        /\ Passed =>
              /\ Consumed = Lifecycle
              /\ \E e \in DOMAIN log :
                    /\ IsCall(e, "xrEndSession") /\ log[e].b = "SUCCESS"
                    /\ EvtsBefore(e) = 8

C3_Witness ==
    scenario = "Normal" /\ Passed /\ Consumed = Lifecycle

\* C4: the xrEndSession that must succeed is called only right after a
\* waitForNextSessionState window that ran its whole duration and returned
\* empty, STOPPING being the last event consumed; an event of any state in
\* that window ends the run in failure without the call; the call must return
\* success, and the next event consumed after it must be IDLE.
C4_StoppingWindowThenEnd ==
    scenario \in Walks =>
        /\ \A i \in DOMAIN log :
              (IsCall(i, "xrEndSession") /\ Expected(i) = "SUCCESS") =>
                 /\ i > 2
                 /\ IsWindow(i - 1) /\ log[i - 1].a = "empty"
                 /\ EvtsBefore(i) = 8
                 /\ Consumed[8] = "STOPPING"
                 /\ log[i].b # "SUCCESS" => Aborted /\ i = Len(log)
                 /\ \A j \in EvtIndices :
                       (j > i /\ EvtsBefore(j) = 8) =>
                          \/ log[j].a = "IDLE"
                          \/ Aborted /\ j = Len(log)
        /\ \A i \in EvtIndices :
              log[i].b = "window" => Aborted /\ i = Len(log)
        /\ (cur.fn = "window" /\ cur.ret = "false") => cur.read = "NONE"
        /\ (cur.fn = "window" /\ cur.ret = "false" /\ pc = "step") => countdown = 0

C4_Witness ==
    /\ scenario = "OutOfTurn" /\ ~failed
    /\ \E i \in DOMAIN log :
          /\ IsCall(i, "xrEndSession") /\ log[i].b = "SUCCESS"
          /\ \E j \in EvtIndices : j > i /\ log[j].a = "IDLE"

\* C5: with a graphics plugin, the successful xrBeginSession of "Try calls out
\* of turn" and of "Advance without frame submission" is followed at once by
\* a one-second window in which no frame has been submitted and which must
\* stay empty: an event of any state in it ends the run in failure.  Without a
\* graphics plugin no such window is opened.
C5_NoAdvanceWithoutFrames ==
    scenario \in {"OutOfTurn", "Advance"} =>
      /\ (cur.fn = "window" /\ (cur.arg = "graphics" \/ scenario = "Advance")) =>
            ~frameSubmitted /\ cur.frames = 0
      /\ \A i \in DOMAIN log :
            (/\ IsCall(i, "xrBeginSession") /\ Expected(i) = "SUCCESS"
             /\ log[i].b = "SUCCESS" /\ Script[log[i].at].sect = 0) =>
                IF graphics
                  THEN /\ \/ i = Len(log) /\ ip = log[i].at + 1
                          \/ /\ i < Len(log) /\ IsWindow(i + 1)
                             /\ log[i + 1].at = log[i].at + 1
                          \/ /\ i + 1 = Len(log) /\ IsEvt(i + 1) /\ log[i + 1].b = "window"
                             /\ Aborted
                       /\ (i = Len(log) /\ pc # "done") =>
                             /\ ~frameSubmitted
                             /\ pc \in {"step", "check", "poll", "sleep"}
                  ELSE /\ scenario = "OutOfTurn"
                       /\ i < Len(log) => ~IsWindow(i + 1) /\ ~(IsEvt(i + 1) /\ log[i + 1].b = "window")
                       /\ (ip = log[i].at + 1 /\ pc # "done") => pc = "step"

C5_Witness ==
    /\ scenario = "OutOfTurn" /\ graphics /\ Aborted /\ failure = "premature"
    /\ Len(Consumed) = 3 /\ Consumed[3] = "SYNCHRONIZED"

\* C6: against a runtime that keeps the session contract and reports every
\* state change within the deadline of the step that waits for it, however
\* late within it, no step of the lifecycle walk fails: the only failure such
\* a run can end in is a deadline the runtime did not meet.
C6_ConformingRuntimePasses ==
    (scenario \in Walks /\ deviations = 0) => failure \in {"none", "timeout"}

\* The session has been asked to exit before record line i.
ExitRequestedAt(i) ==
    \E x \in 1..(i - 1) : IsCall(x, "xrRequestExitSession") /\ log[x].b = "SUCCESS"

EndedAt(i) ==
    \E e \in 1..(i - 1) : IsCall(e, "xrEndSession") /\ log[e].b = "SUCCESS"

BegunAt(i) ==
    \E b \in 1..(i - 1) : IsCall(b, "xrBeginSession") /\ log[b].b = "SUCCESS"

Section(i) == Script[log[i].at].sect

WaitFrameSections == {1, 2, 3, 13, 14, 15}

BeginSessionSections == {4, 5, 6, 7, 9, 10, 11, 12}

C8_BeginSessionWhileRunning ==
    scenario = "OutOfTurn" =>
        \A i \in DOMAIN log :
            (log[i].k = "call" /\ (Section(i) \in BeginSessionSections
                                    \/ (log[i].a = "xrBeginSession" /\ Section(i) # 0))) =>
                /\ log[i].a = "xrBeginSession" /\ Section(i) \in BeginSessionSections
                /\ Expected(i) = "SESSION_RUNNING"
                /\ RunningAt(i)
                /\ <<EvtsBefore(i), ExitRequestedAt(i)>> =
                      CASE Section(i) = 4 -> <<2, FALSE>>
                        [] Section(i) = 5 -> <<3, FALSE>>
                        [] Section(i) = 6 -> <<4, FALSE>>
                        [] Section(i) = 7 -> <<5, FALSE>>
                        [] Section(i) = 9 -> <<5, TRUE>>
                        [] Section(i) = 10 -> <<6, TRUE>>
                        [] Section(i) = 11 -> <<7, TRUE>>
                        [] OTHER -> <<8, TRUE>>
                /\ IsPrefix(SubSeq(Consumed, 1, EvtsBefore(i)), Lifecycle)
                /\ deviations = 0 => log[i].b = "SESSION_RUNNING"
                /\ log[i].b # "SESSION_RUNNING" => Aborted /\ i = Len(log)

C8_Witness ==
    /\ scenario = "OutOfTurn" /\ probe = 12 /\ deviations = 0 /\ ~failed
    /\ \E i \in DOMAIN log :
          IsCall(i, "xrBeginSession") /\ log[i].b = "SESSION_RUNNING" /\ EvtsBefore(i) = 8

\* C9: xrEndSession is called with FOCUSED the last state consumed and no exit
\* requested, where the run demands SESSION_NOT_STOPPING, and with STOPPING
\* the last state consumed, where it demands success; a runtime keeping the
\* contract returns exactly these, and any other result ends the run in failure.
C9_EndSessionOnlyInStopping ==
    scenario \in Walks =>
        \A i \in DOMAIN log :
            IsCall(i, "xrEndSession") =>
                /\ RunningAt(i)
                /\ Expected(i) \in {"SESSION_NOT_STOPPING", "SUCCESS"}
                /\ Expected(i) = "SESSION_NOT_STOPPING" =>
                      /\ EvtsBefore(i) = 5 /\ Consumed[5] = "FOCUSED"
                      /\ ~ExitRequestedAt(i)
                /\ Expected(i) = "SUCCESS" =>
                      /\ EvtsBefore(i) = 8 /\ Consumed[8] = "STOPPING"
                      /\ ExitRequestedAt(i)
                /\ deviations = 0 => log[i].b = Expected(i)
                /\ log[i].b # Expected(i) => Aborted /\ i = Len(log)

C9_Witness ==
    /\ scenario = "Normal" /\ deviations = 0
    /\ \E i, j \in DOMAIN log :
          /\ IsCall(i, "xrEndSession") /\ log[i].b = "SESSION_NOT_STOPPING"
          /\ IsCall(j, "xrEndSession") /\ log[j].b = "SUCCESS"

Thread ==
    \/ SkipSection
    \/ SessionCall
    \/ waitForNextSessionState
    \/ submitFramesUntilSessionState
    \/ RunToSessionState
    \/ LoopBody
    \/ waitForNextSessionState_TimeUp
    \/ submitFramesUntilSessionState_TimeUp
    \/ RunToSessionState_TimeUp
    \/ tryReadEvent_Throw
    \/ tryGetNextSessionState_Discard
    \/ tryGetNextSessionState_Found
    \/ tryGetNextSessionState_Drained
    \/ sleep_for
    \/ submitFrame_xrWaitFrame
    \/ submitFrame_xrBeginFrame
    \/ submitFrame_xrEndFrame

\* The test case runs on one thread, which executes its next statement
\* whenever it has one: every call it makes returns, sleep_for after 5 ms and
\* xrWaitFrame after a frame period.  Nothing is assumed of the runtime's pace.
FairSpec == Init /\ [][Next]_vars /\ WF_vars(Thread)

\* STOPPING has been reported after xrRequestExitSession succeeded, and in the
\* lifecycle walks the run has consumed it.
StoppingObserved ==
    /\ \E d \in DOMAIN delivered : delivered[d] = "STOPPING"
    /\ scenario \in Walks =>
          \E x, j \in DOMAIN log :
              /\ IsCall(x, "xrRequestExitSession") /\ log[x].b = "SUCCESS"
              /\ j > x /\ IsEvt(j) /\ log[j].a = "STOPPING"

\* C11: xrRequestExitSession on a running session is demanded to return
\* success, which a runtime keeping the contract returns; once it has
\* succeeded, the run (which goes on submitting frames) eventually either
\* observes STOPPING or ends in failure: no run passes, and none goes on for
\* ever, without STOPPING having been reached.
C11_RequestExitLeadsToStopping ==
    /\ [](\A i \in DOMAIN log :
            (IsCall(i, "xrRequestExitSession") /\ RunningAt(i)) =>
                /\ Expected(i) = "SUCCESS"
                /\ deviations = 0 => log[i].b = "SUCCESS"
                /\ log[i].b # "SUCCESS" => Aborted /\ i = Len(log))
    /\ []((exitRequested /\ deviations = 0 /\ Passed) => StoppingObserved)
    /\ (exitRequested /\ deviations = 0) ~> (deviations > 0 \/ failed \/ StoppingObserved)

C11_Witness ==
    /\ scenario = "ExitAfter" /\ exitRequested /\ deviations = 0 /\ ~failed
    /\ cur.fn = "runTo" /\ cur.arg = "STOPPING" /\ cur.ret = "true" /\ cur.frames > 0

\* The helper in progress is one of those that poll with tryGetNextSessionState.
PollerCall == cur.fn \in {"waitFor", "window", "submitUntil"}

\* The step is one of the polling thread (the runtime's steps only append).
PollStep == pc = "poll" /\ PollerCall /\ Len(queue') <= Len(queue) /\ vars' # vars

PollThrows == queue' = queue /\ log' = log /\ cur'.ret = "throw" /\ pc' = "done" /\ failed'

\* C12: each poll of tryGetNextSessionState takes the oldest event of the
\* queue and nothing else: an event of another type is dropped and the loop
\* polls again, the first session-state-changed event is copied out and
\* returned with every later event left in the queue, and the call returns
\* false exactly at a poll that finds the queue empty.
C12_FirstSessionStateEvent ==
    [][PollStep =>
         \/ PollThrows
         \/ /\ queue = <<>>
            /\ queue' = queue /\ log' = log /\ evt' = evt /\ cur' = cur
            /\ pc' \in {"sleep", "xrWaitFrame"}
         \/ /\ queue # <<>> /\ Head(queue) = OtherEvent
            /\ queue' = Tail(queue)
            /\ pc' = "poll" /\ UNCHANGED verifierVars
         \/ /\ queue # <<>> /\ Head(queue) \in States
            /\ queue' = Tail(queue)
            /\ evt' = Head(queue) /\ cur'.read = Head(queue)
            /\ cur'.ret \in {"true", "return", "fail"}
            /\ Len(log') = Len(log) + 1
            /\ log'[Len(log')].k = "evt" /\ log'[Len(log')].a = Head(queue)
            /\ pc' \in {"step", "done"}]_vars

C12_Witness ==
    /\ PollerCall /\ cur.ret \in {"true", "return"} /\ pc = "step"
    /\ others = 1 /\ \A q \in DOMAIN queue : queue[q] # OtherEvent
    /\ queue # <<>>
    /\ cur.read = Consumed[Len(Consumed)]

\* The session-state-changed events still in the queue, in order.
Pending == SelectSeq(queue, IsSessionStateChanged)

\* C13: at every moment the session-state-changed events handed to the test
\* case so far, followed by those still in the queue, are exactly the events
\* the runtime has enqueued, in the order it enqueued them: what has been
\* handed over is a prefix of what was delivered, with nothing reordered,
\* duplicated or skipped, and the event last copied out is the last of them.
C13_EventsInDeliveryOrder ==
    /\ Consumed \o Pending = delivered
    /\ IsPrefix(Consumed, delivered)
    /\ evt # "NONE" => Consumed # <<>> /\ evt = Consumed[Len(Consumed)]
    /\ evt = "NONE" => Consumed = <<>>

C13_Witness ==
    /\ Len(Consumed) >= 2 /\ Len(Pending) >= 2 /\ others = 1
    /\ \E i \in EvtIndices : log[i].b = "waitFor"
    /\ \E i \in EvtIndices : log[i].b = "submitUntil"

\* The helper in progress, or the last one, is waitForNextSessionState.
WaitCall == cur.fn \in {"waitFor", "window"}

\* C14: waitForNextSessionState returns false only with its countdown run out
\* and no session-state-changed event read; it returns true at the very poll
\* that finds one, without sleeping again; after a poll that finds nothing it
\* sleeps one 5 ms interval, which the countdown loses, and tests the
\* countdown again before the next poll.
C14_WaitReturnsEmptyOnlyAtDeadline ==
    /\ [](WaitCall =>
            /\ cur.ret = "false" => countdown = 0 /\ cur.read = "NONE"
            /\ cur.ret = "true" => cur.read \in States /\ pc \in {"step", "done"}
            /\ pc \in {"poll", "sleep"} => countdown > 0 /\ cur.ret = "active")
    /\ [][WaitCall =>
            /\ (pc = "poll" /\ Len(log') > Len(log)) =>
                  /\ cur'.ret = "true" /\ pc' \in {"step", "done"}
                  /\ countdown' = countdown
            /\ (pc = "poll" /\ pc' # "poll" /\ log' = log /\ cur'.ret # "throw") =>
                  /\ queue = <<>> /\ pc' = "sleep" /\ countdown' = countdown
            /\ (pc = "sleep" /\ pc' # "sleep") =>
                  /\ pc' = "check" /\ countdown' = countdown - 1 /\ cur' = cur
            /\ (pc = "check" /\ vars' # vars) =>
                  IF countdown = 0
                    THEN cur'.ret = "false" /\ pc' \in {"step", "done"}
                    ELSE pc' = "poll" /\ cur' = cur /\ countdown' = countdown]_vars

C14_Witness ==
    /\ cur.fn = "waitFor" /\ cur.arg = "READY" /\ cur.ret = "true"
    /\ countdown = WaitTicks - 1 /\ pc = "step"

\* The helper in progress, or the last one, is submitFramesUntilSessionState.
SubmitCall == cur.fn = "submitUntil"

FrameProtocol == <<"xrWaitFrame", "xrBeginFrame", "xrEndFrame">>

\* C16: a submitFrame makes its frame calls in the order xrWaitFrame,
\* xrBeginFrame, xrEndFrame, each once, and a frame is complete exactly when
\* the xrEndFrame that follows the other two has succeeded; the frameEndInfo
\* passed to xrEndFrame carries the predictedDisplayTime that the xrWaitFrame
\* of this same submitFrame returned, not that of any earlier frame, and the
\* configured environment blend mode.
C16_FrameProtocol ==
    /\ [](SubmitCall =>
            /\ IsPrefix(issued, FrameProtocol)
            /\ pc = "xrWaitFrame" =>
                  issued = <<>> /\ frameState = 0 /\ frameEndInfo = NoFrameEndInfo
            /\ pc = "xrBeginFrame" =>
                  /\ issued = <<"xrWaitFrame">>
                  /\ frameState = cur.frames + 1 /\ frameEndInfo = NoFrameEndInfo
            /\ pc = "xrEndFrame" =>
                  /\ issued = <<"xrWaitFrame", "xrBeginFrame">>
                  /\ frameState = cur.frames + 1
                  /\ frameEndInfo.displayTime = frameState
                  /\ frameEndInfo.displayTime > cur.frames
                  /\ frameEndInfo.environmentBlendMode = environmentBlendModeValue
            /\ pc \in {"step", "check", "poll"} => issued = <<>>)
    /\ [][(SubmitCall /\ pc # "step") =>
            /\ cur'.frames # cur.frames =>
                  /\ pc = "xrEndFrame" /\ issued = <<"xrWaitFrame", "xrBeginFrame">>
                  /\ cur'.frames = cur.frames + 1 /\ pc' = "check"
            /\ issued' # issued =>
                  \/ /\ Len(issued) < 3
                     /\ issued' = Append(issued, FrameProtocol[Len(issued) + 1])
                  \/ /\ issued' = <<>> /\ pc = "xrEndFrame"
                     /\ cur'.frames = cur.frames + 1
            /\ (pc' = "xrWaitFrame" /\ pc # "xrWaitFrame") => pc = "poll" /\ queue = <<>>]_vars

C16_Witness ==
    /\ SubmitCall /\ pc = "xrEndFrame" /\ cur.frames = 1
    /\ frameEndInfo = [displayTime |-> 2, environmentBlendMode |-> environmentBlendModeValue]

InFrame == pc \in {"xrWaitFrame", "xrBeginFrame", "xrEndFrame"}

\* The call issued at a frame step returns an error code: the runtime keeps
\* the contract on a session that is not running, or breaks it on a running one.
FrameCallFails ==
    \/ running /\ deviations' > deviations
    \/ ~running /\ deviations' = deviations

\* C17: a frame call of submitFrame that returns an error code throws: the
\* run is over at once in failure, the failed call being the last frame call
\* made (the rest of the frame is not issued, the call is not made again, no
\* frame is counted), and nothing is polled or submitted after it.
C17_FrameErrorIsFatal ==
    /\ []((cur.ret = "throw" /\ issued # <<>>) =>
            /\ pc = "done" /\ failed
            /\ IsPrefix(issued, FrameProtocol))
    /\ [][(InFrame /\ pc' # pc) =>
            /\ FrameCallFails =>
                  /\ cur'.ret = "throw" /\ pc' = "done" /\ failed'
                  /\ issued' = Append(issued, FrameProtocol[Len(issued) + 1])
                  /\ cur'.frames = cur.frames /\ countdown' = countdown
                  /\ queue' = queue /\ log' = log /\ ip' = ip
            /\ pc' = "done" => cur'.ret = "throw"]_vars
    /\ [][pc = "done" => UNCHANGED vars]_vars

C17_Witness ==
    /\ SubmitCall /\ cur.ret = "throw" /\ running /\ pc = "done"
    /\ issued = <<"xrWaitFrame", "xrBeginFrame">> /\ cur.frames = 1

\* C18: a tryReadEvent is one xrPollEvent: it takes at most one event from
\* the queue; when the poll succeeds the event is taken and handed on (true),
\* when the poll reports that no event is available nothing is taken and the
\* caller gets false without any failure, and when the poll returns an error
\* code the call throws and the run is over.
C18_TryReadEventOnePoll ==
    /\ [][PollStep =>
            /\ Len(queue') >= Len(queue) - 1
            /\ deviations' > deviations => PollThrows
            /\ (deviations' = deviations /\ tryReadEvent(xrPollEvent)) =>
                  /\ queue # <<>> /\ queue' = Tail(queue)
                  /\ pc' \in {"poll", "step", "done"}
                  /\ cur'.ret # "throw"
            /\ (deviations' = deviations /\ xrPollEvent = EventUnavailable) =>
                  /\ queue = <<>> /\ queue' = queue
                  /\ pc' \in {"sleep", "xrWaitFrame"}
                  /\ failed' = failed /\ cur' = cur /\ evt' = evt]_vars
    /\ []((PollerCall /\ cur.ret = "throw" /\ issued = <<>>) =>
             pc = "done" /\ failed /\ cur.read = "NONE")

C18_Witness ==
    /\ PollerCall /\ cur.ret = "throw" /\ issued = <<>> /\ pc = "done"
    /\ queue # <<>> /\ failure = "xr_error"

\* ------------------------------------------------ a CountdownTimer on its own
\* Everything but the timer: the test case does not run.
sessionVars == <<scenario, probe, graphics, ip, pc, evt, cur, failed, failure, log,
                 queue, rtState, running, exitRequested, ended, frameSubmitted, deviations,
                 others, delivered, frameState, frameEndInfo, issued, drained, succeeded>>

\* CountdownTimer countdown(d), for any duration d from zero on.
TimerInit ==
    /\ duration \in 0..MaxDuration
    /\ countdown = duration
    /\ asked = <<>>
    /\ scenario = "Normal" /\ probe = 0 /\ graphics = FALSE
    /\ ip = 1 /\ pc = "step" /\ evt = "NONE"
    /\ cur = [fn |-> "none", arg |-> "NONE", ret |-> "none", frames |-> 0, read |-> "NONE"]
    /\ failed = FALSE /\ failure = "none" /\ log = <<>>
    /\ queue = <<>> /\ rtState = "UNKNOWN" /\ running = FALSE
    /\ exitRequested = FALSE /\ ended = FALSE /\ frameSubmitted = FALSE
    /\ deviations = 0 /\ others = 0 /\ delivered = <<>>
    /\ frameState = 0 /\ frameEndInfo = NoFrameEndInfo /\ issued = <<>> /\ drained = 0
    /\ succeeded = NoFrameCalls
    /\ params = NoParameters /\ formatStep = "declared"
    /\ imageFormat = 1 /\ defaultFormat = 1 /\ rendered = <<>>
    /\ range = NoIntegerColor /\ bits = Unset /\ isSigned = Unset
    /\ CacheConstructed
    /\ LocateNotRun
    /\ MeshNotMade

\* countdown.IsTimeUp(): the query reads the clock and changes nothing.
Timer_IsTimeUp ==
    /\ Len(asked) < MaxQueries
    /\ asked' = Append(asked, IsTimeUp)
    /\ UNCHANGED <<countdown, duration>>
    /\ UNCHANGED sessionVars
    /\ UNCHANGED <<formatVars, cacheVars, locateVars, meshVars>>

\* Time passes between two queries.
Timer_Elapse ==
    /\ countdown > 0
    /\ \E ticks \in 1..MaxDuration : countdown' = Elapse(ticks)
    /\ UNCHANGED <<duration, asked>>
    /\ UNCHANGED sessionVars
    /\ UNCHANGED <<formatVars, cacheVars, locateVars, meshVars>>

TimerNext == Timer_IsTimeUp \/ Timer_Elapse

TimerSpec == TimerInit /\ [][TimerNext]_vars

\* C19: once IsTimeUp has answered true for a CountdownTimer it answers true
\* at every later query, nothing ever gives the timer time back, and a timer
\* created with duration zero answers true at its first query.
C19_TimerStaysExpired ==
    /\ [](\A i, j \in DOMAIN asked : (i < j /\ asked[i]) => asked[j])
    /\ []((duration = 0 /\ asked # <<>>) => asked[1])
    /\ [](asked # <<>> => (asked[Len(asked)] => countdown = 0))
    /\ [][countdown' <= countdown]_vars

C19_Witness ==
    /\ duration = 0 /\ Len(asked) = MaxQueries
    /\ \A i \in DOMAIN asked : asked[i]

\* ------------------------------------------ the format classification queries
\* Any value of the argument, neither query made yet; tp is declared and
\* not yet filled in.
FormatInit ==
    /\ range \in 0..MaxColorIntegerRange
    /\ bits = Unset /\ isSigned = Unset
    /\ params = NoParameters /\ formatStep = "declared"
    /\ imageFormat \in 1..MaxFormats /\ defaultFormat \in 1..MaxFormats /\ rendered = <<>>
    /\ duration = 0 /\ asked = <<>> /\ countdown = 0
    /\ scenario = "Normal" /\ probe = 0 /\ graphics = FALSE
    /\ ip = 1 /\ pc = "step" /\ evt = "NONE"
    /\ cur = [fn |-> "none", arg |-> "NONE", ret |-> "none", frames |-> 0, read |-> "NONE"]
    /\ failed = FALSE /\ failure = "none" /\ log = <<>>
    /\ queue = <<>> /\ rtState = "UNKNOWN" /\ running = FALSE
    /\ exitRequested = FALSE /\ ended = FALSE /\ frameSubmitted = FALSE
    /\ deviations = 0 /\ others = 0 /\ delivered = <<>>
    /\ frameState = 0 /\ frameEndInfo = NoFrameEndInfo /\ issued = <<>> /\ drained = 0
    /\ succeeded = NoFrameCalls
    /\ CacheConstructed
    /\ LocateNotRun
    /\ MeshNotMade

\* SwapchainFormat::ColorIntegerRangeBits(colorIntegerRange)
Query_ColorIntegerRangeBits ==
    /\ bits = Unset
    /\ bits' = ColorIntegerRangeBits(range)
    /\ UNCHANGED <<params, formatStep, imageFormat, defaultFormat, rendered, range, isSigned>>
    /\ UNCHANGED <<sessionVars, countdown, timerVars, cacheVars, locateVars, meshVars>>

\* SwapchainFormat::ColorIntegerRangeIsSigned(colorIntegerRange)
Query_ColorIntegerRangeIsSigned ==
    /\ isSigned = Unset
    /\ isSigned' = ColorIntegerRangeIsSigned(range)
    /\ UNCHANGED <<params, formatStep, imageFormat, defaultFormat, rendered, range, bits>>
    /\ UNCHANGED <<sessionVars, countdown, timerVars, cacheVars, locateVars, meshVars>>

\* Mutant: the table keeps no relation between the fields of a record.
GetSwapchainCreateTestParameters_AnyRecord ==
    /\ formatStep = "declared"
    /\ \/ \E tp \in SwapchainCreateTestParameters :
            /\ params' = tp
            /\ formatStep' = "filled"
       \/ /\ params' = params
          /\ formatStep' = "require_failed"
    /\ UNCHANGED <<imageFormat, defaultFormat, rendered, range, bits, isSigned>>
    /\ UNCHANGED <<sessionVars, countdown, timerVars, cacheVars, locateVars, meshVars>>

\* REQUIRE(globalData.graphicsPlugin->GetSwapchainCreateTestParameters(imageFormat, &tp)):
\* the format table fills tp with the record it holds for the format, in
\* which an integer range is only ever given to a color format, or it does
\* not know the format and the REQUIRE fails.
GetSwapchainCreateTestParameters ==
    /\ formatStep = "declared"
    /\ \/ \E tp \in SwapchainCreateTestParameters :
            /\ tp.colorIntegerRange # NoIntegerColor => tp.colorFormat = "COLOR"
            /\ params' = tp
            /\ formatStep' = "filled"
       \/ /\ params' = params
          /\ formatStep' = "require_failed"
    /\ UNCHANGED <<imageFormat, defaultFormat, rendered, range, bits, isSigned>>
    /\ UNCHANGED <<sessionVars, countdown, timerVars, cacheVars, locateVars, meshVars>>

\* Mutant: the loop does not pass over the formats with an integer range.
FormatLoopBody_NoIntegerTest ==
    /\ formatStep = "filled"
    /\ formatStep' =
          IF params.supportsRendering = "NO_RENDERING_SUPPORT" THEN "continue_no_rendering"
          ELSE IF params.colorFormat = "NON_COLOR" THEN "continue_non_color"
          ELSE "section"
    /\ UNCHANGED <<params, imageFormat, defaultFormat, rendered, range, bits, isSigned>>
    /\ UNCHANGED <<sessionVars, countdown, timerVars, cacheVars, locateVars, meshVars>>

\* The body of the loop over the image formats: a format that cannot be
\* rendered to, is not a color format or has an integer range is passed over,
\* any other gets its DYNAMIC_SECTION.
FormatLoopBody ==
    /\ formatStep = "filled"
    /\ formatStep' =
          IF params.supportsRendering = "NO_RENDERING_SUPPORT" THEN "continue_no_rendering"
          ELSE IF params.colorFormat = "NON_COLOR" THEN "continue_non_color"
          ELSE IF params.colorIntegerRange # NoIntegerColor THEN "continue_integer"
          ELSE "section"
    /\ UNCHANGED <<params, imageFormat, defaultFormat, rendered, range, bits, isSigned>>
    /\ UNCHANGED <<sessionVars, countdown, timerVars, cacheVars, locateVars, meshVars>>

\* doInteractiveRenderTest(projFormat, projTestParameters, quadFormat, quadTestParameters)
doInteractiveRenderTest(projFormat, quadFormat) ==
    rendered' = Append(rendered, [projFormat |-> projFormat, quadFormat |-> quadFormat])

\* The run of the test case that enters SECTION("Custom projection layer
\* format") of the format's DYNAMIC_SECTION; then, for the default format,
\* the continue, and for any other the SECTION("Custom quad layer format")
\* that this run meets without entering it, so that the test case is run again.
Section_CustomProjectionLayerFormat ==
    /\ formatStep = "section"
    /\ doInteractiveRenderTest(imageFormat, defaultFormat)
    /\ formatStep' = IF imageFormat = defaultFormat THEN "complete" ELSE "run_again"
    /\ UNCHANGED <<params, imageFormat, defaultFormat, range, bits, isSigned>>
    /\ UNCHANGED <<sessionVars, countdown, timerVars, cacheVars, locateVars, meshVars>>

\* The next run of the test case: it comes to the same DYNAMIC_SECTION by the
\* same tests, passes the section that is done and enters
\* SECTION("Custom quad layer format").
Section_CustomQuadLayerFormat ==
    /\ formatStep = "run_again"
    /\ imageFormat # defaultFormat
    /\ doInteractiveRenderTest(defaultFormat, imageFormat)
    /\ formatStep' = "complete"
    /\ UNCHANGED <<params, imageFormat, defaultFormat, range, bits, isSigned>>
    /\ UNCHANGED <<sessionVars, countdown, timerVars, cacheVars, locateVars, meshVars>>

FormatNext ==
    \/ Query_ColorIntegerRangeBits
    \/ Query_ColorIntegerRangeIsSigned
    \/ GetSwapchainCreateTestParameters
    \/ FormatLoopBody
    \/ Section_CustomProjectionLayerFormat
    \/ Section_CustomQuadLayerFormat

FormatSpec == FormatInit /\ [][FormatNext]_vars

\* C20: for an argument that is an integer range,
\* ColorIntegerRangeBits returns its bit depth: 8 for u8 and s8, 16 for u16
\* and s16, 32 for u32 and s32, 10 for uRGB10A2; whatever it returns is one of
\* 8, 10, 16 and 32.
C20_BitsOfIntegerRange ==
    bits # Unset =>
        LET r == range IN
        /\ r \in {u8, s8} => bits = Return(8)
        /\ r \in {u16, s16} => bits = Return(16)
        /\ r \in {u32, s32} => bits = Return(32)
        /\ r = uRGB10A2 => bits = Return(10)
        /\ bits.outcome = "return" => bits.value \in {8, 10, 16, 32}
        /\ r \in ColorIntegerRange \ {NoIntegerColor} => bits.outcome = "return"

C20_Witness ==
    bits = Return(10) /\ range = uRGB10A2

\* C21: for an argument that is an integer range, ColorIntegerRangeIsSigned
\* returns true when it is s8, s16 or s32 and false when it is u8, u16, u32
\* or uRGB10A2, and it returns true or false for no other argument.
C21_SignedExactlyForSignedRanges ==
    isSigned # Unset =>
        /\ isSigned = Return(TRUE) <=> range \in {s8, s16, s32}
        /\ isSigned = Return(FALSE) <=> range \in {u8, u16, u32, uRGB10A2}
        /\ isSigned.outcome = "return" => isSigned.value \in BOOLEAN

C21_Witness ==
    /\ isSigned = Return(FALSE) /\ range = uRGB10A2
    /\ bits = Return(10)

\* The argument is not an integer range: it is NoIntegerColor or no enumerator.
NotAnIntegerRange == range \notin ColorIntegerRange \ {NoIntegerColor}

\* C22: called with NoIntegerColor, or with a value that is no enumerator of
\* ColorIntegerRange, ColorIntegerRangeBits and ColorIntegerRangeIsSigned both
\* throw std::logic_error ("only valid for integer colors" for NoIntegerColor,
\* "Missing case" for the others); neither returns any value for such an
\* argument, and neither throws for an integer range.
C22_LogicErrorOutsideIntegerRanges ==
    /\ bits # Unset =>
          /\ NotAnIntegerRange <=> bits.outcome = "logic_error"
          /\ range = NoIntegerColor =>
                bits = LogicError("ColorIntegerRangeBits only valid for integer colors")
          /\ range \notin ColorIntegerRange =>
                bits = LogicError("Missing case in implementation of ColorIntegerRangeBits")
    /\ isSigned # Unset =>
          /\ NotAnIntegerRange <=> isSigned.outcome = "logic_error"
          /\ range = NoIntegerColor =>
                isSigned = LogicError("ColorIntegerRangeIsSigned only valid for integer colors")
          /\ range \notin ColorIntegerRange =>
                isSigned = LogicError("Missing case in implementation of ColorIntegerRangeIsSigned")

C22_Witness ==
    /\ range \notin ColorIntegerRange
    /\ bits.outcome = "logic_error" /\ isSigned.outcome = "logic_error"

\* The format loop has tp filled in by the format table.
Filled == formatStep \notin {"declared", "require_failed"}

\* C23: every SwapchainCreateTestParameters record that the format table hands
\* out has colorFormat COLOR whenever its colorIntegerRange is not
\* NoIntegerColor; the loop over the formats reads the record and never
\* changes it, so this holds of tp for as long as it is held.
C23_IntegerRangeImpliesColor ==
    /\ [](Filled => (params.colorIntegerRange # NoIntegerColor => params.colorFormat = "COLOR"))
    /\ [](formatStep = "continue_non_color" => params.colorIntegerRange = NoIntegerColor)
    /\ [][Filled => params' = params]_vars

C23_Witness ==
    /\ formatStep = "continue_integer"
    /\ params.colorIntegerRange = s16 /\ params.colorFormat = "COLOR"

\* C24: submitFramesUntilSessionState alternates draining the queue and
\* submitting a frame: nothing is submitted before the first drain, a frame
\* is begun only right after a drain that found no session-state-changed
\* event, and after a frame the queue is drained again before the next one,
\* so a call that has drained the queue empty k times has submitted k frames
\* when it returns; when a session-state-changed event is pending no drain
\* comes back empty, so a call entered with one pending returns without a frame.
C24_PollAndFrameAlternate ==
    /\ [](SubmitCall =>
            /\ InFrame => drained = cur.frames + 1
            /\ pc \in {"check", "poll"} => drained = cur.frames
            /\ cur.ret \in {"return", "fail"} => drained = cur.frames
            /\ (cur.ret = "active" /\ drained = 0) =>
                  pc \in {"check", "poll"} /\ cur.frames = 0 /\ issued = <<>>)
    /\ [][(SubmitCall /\ pc # "step") =>
            /\ drained' # drained =>
                  /\ pc = "poll" /\ queue = <<>> /\ Pending = <<>>
                  /\ drained' = drained + 1 /\ pc' = "xrWaitFrame"
            /\ (cur.ret = "active" /\ Pending # <<>> /\ pc \in {"check", "poll"}) =>
                  /\ drained' = drained /\ cur'.frames = cur.frames
                  /\ pc' \in {"check", "poll", "step", "done"}
            /\ (pc = "xrEndFrame" /\ pc' # pc /\ cur'.ret # "throw") => pc' = "check"
            /\ cur'.ret = "return" =>
                  /\ pc = "poll" /\ cur'.frames = drained
                  /\ cur'.read = cur.arg]_vars
    /\ [][(AtStatement("submitUntil") /\ vars' # vars /\ pc' # "step") =>
            pc' = "check" /\ drained' = 0 /\ cur'.frames = 0 /\ countdown' = SubmitTicks]_vars

C24_Witness ==
    /\ SubmitCall /\ cur.ret = "return" /\ cur.arg = "VISIBLE"
    /\ cur.frames = 1 /\ drained = 1 /\ others = 1

\* The poll in progress reads a session-state-changed event that is not the
\* one submitFramesUntilSessionState was called for.
ReadsOtherState ==
    /\ SubmitCall /\ pc = "poll" /\ queue # <<>>
    /\ Head(queue) \in States \ {cur.arg}
    /\ queue' = Tail(queue)

\* C25: a submitFramesUntilSessionState that reads a session-state-changed
\* event of another state than the expected one fails at that very step,
\* whatever is left of its countdown and whatever else is in the queue: the
\* run is over, with no frame begun, no time waited and nothing polled after
\* it, so an event of the expected state that follows in the queue is never read.
C25_UnexpectedStateFailsAtOnce ==
    /\ []((SubmitCall /\ cur.read \notin {"NONE", cur.arg}) =>
            /\ cur.ret = "fail" /\ pc = "done" /\ failed
            /\ issued = <<>> /\ drained = cur.frames
            /\ log[Len(log)].k = "evt" /\ log[Len(log)].a = cur.read)
    /\ [][ReadsOtherState =>
            /\ cur'.ret = "fail" /\ cur'.read = Head(queue)
            /\ pc' = "done" /\ failed' /\ ip' = ip
            /\ failed => failure' = failure
            /\ ~failed => failure' = "unexpected_state"
            /\ countdown' = countdown /\ cur'.frames = cur.frames
            /\ drained' = drained /\ issued' = issued]_vars
    /\ [][pc = "done" => (queue' = queue /\ log' = log /\ cur' = cur /\ pc' = pc)]_vars

C25_Witness ==
    /\ SubmitCall /\ cur.ret = "fail" /\ cur.read \in States \ {cur.arg}
    /\ countdown > 0 /\ failure = "unexpected_state"
    /\ \E q \in DOMAIN queue : queue[q] = cur.arg

\* An event of state s has been consumed before record line i.
ConsumedBefore(i, s) == \E j \in 1..(i - 1) : IsEvt(j) /\ log[j].a = s

\* C26: in the lifecycle walks every action of the test case follows the
\* observation that allows it: xrBeginSession is called only with READY
\* consumed (the scenario's own call right after IDLE and READY and nothing
\* else), a frame is begun only after an xrBeginSession that returned
\* success, xrRequestExitSession is called only with FOCUSED consumed, and
\* the xrEndSession that must succeed only with STOPPING consumed.
C26_ActionsFollowObservations ==
    scenario \in Walks =>
        /\ \A i \in DOMAIN log :
              /\ IsCall(i, "xrBeginSession") =>
                    /\ ConsumedBefore(i, "READY")
                    /\ Section(i) = 0 => EvtsBefore(i) = 2 /\ Consumed[2] = "READY"
              /\ IsCall(i, "xrRequestExitSession") =>
                    /\ ConsumedBefore(i, "FOCUSED")
                    /\ EvtsBefore(i) = 5 /\ Consumed[5] = "FOCUSED"
              /\ (IsCall(i, "xrEndSession") /\ Expected(i) = "SUCCESS") =>
                    /\ ConsumedBefore(i, "STOPPING")
                    /\ Consumed[EvtsBefore(i)] = "STOPPING"
        /\ (SubmitCall \/ InFrame \/ issued # <<>>) =>
              /\ BegunAt(Len(log) + 1)
              /\ ConsumedBefore(Len(log) + 1, "READY")

C26_Witness ==
    /\ scenario = "Cycle" /\ deviations = 0 /\ ~failed /\ ended
    /\ Len(Consumed) = 8 /\ Consumed[8] = "STOPPING"
    /\ \E i \in DOMAIN log : IsCall(i, "xrEndSession") /\ log[i].b = "SUCCESS"

\* C27: in the lifecycle walks a frame call is made only while the session is
\* running by the calls made so far, that is after an xrBeginSession that
\* succeeded and before the xrEndSession that succeeded: no submitFrame is
\* entered by the submitFramesUntilSessionState calls that wait for IDLE and
\* for EXITING after xrEndSession.
C27_FramesOnlyWhileRunning ==
    (scenario \in Walks /\ SubmitCall /\ (InFrame \/ issued # <<>>)) =>
        /\ RunningAt(Len(log) + 1)
        /\ ~EndedAt(Len(log) + 1)

\* ------------------------------------- waiting on a runtime that floods the queue
\* The runtime enqueues events of another type without end: whenever one has
\* been read it has the next one ready.
RuntimeFlood ==
    /\ RuntimeRuns
    /\ Len(queue) < MaxFlood
    /\ queue' = Append(queue, OtherEvent)
    /\ others' = IF others < MaxOtherEvents THEN others + 1 ELSE others
    /\ UNCHANGED <<rtState, running, exitRequested, ended, frameSubmitted, deviations, delivered>>
    /\ UNCHANGED verifierVars
    /\ UNCHANGED runVars
    /\ UNCHANGED apartVars
    /\ UNCHANGED frameVars

\* The two waitForNextSessionState calls that open a lifecycle walk.
FloodInit == Init /\ scenario \in {"Normal", "Cycle"}

\* The steps of the thread inside waitForNextSessionState.
WaitThread ==
    \/ waitForNextSessionState
    \/ LoopBody
    \/ waitForNextSessionState_TimeUp
    \/ tryReadEvent_Throw
    \/ tryGetNextSessionState_Discard
    \/ tryGetNextSessionState_Found
    \/ tryGetNextSessionState_Drained
    \/ sleep_for

FloodNext ==
    \/ waitForNextSessionState
    \/ LoopBody
    \/ waitForNextSessionState_TimeUp
    \/ tryReadEvent_Throw
    \/ tryGetNextSessionState_Discard
    \/ tryGetNextSessionState_Found
    \/ tryGetNextSessionState_Drained
    \/ sleep_for
    \/ RuntimeAdvance
    \/ RuntimeDeviate
    \/ RuntimeFlood

\* The thread runs on whenever it has a step to take; nothing is assumed of
\* the runtime's pace.
FloodSpec == FloodInit /\ [][FloodNext]_vars /\ WF_vars(WaitThread)

\* C28: every call of waitForNextSessionState comes to an end, whatever the
\* runtime does, also when the runtime keeps the queue filled with events
\* that are not session-state-changed events.
C28_WaitTerminates == (WaitCall /\ cur.ret = "active") ~> (cur.ret # "active")

\* C29: at the step at which waitForNextSessionState returns false no
\* session-state-changed event is in the queue: every one that the runtime
\* enqueued during the call has been read, also one enqueued during the last
\* sleep before the deadline.
C29_NothingPendingAtFalse ==
    [][(WaitCall /\ pc = "check" /\ cur.ret = "active" /\ cur'.ret = "false") =>
          Pending = <<>> /\ Pending' = <<>>]_vars

\* ------------------------------------------ the helpers called with any duration
\* waitForNextSessionState(instance, &evt, duration) with the duration given
\* by the caller, from zero on.
waitForNextSessionState_duration ==
    /\ \/ AtStatement("waitFor")
       \/ AtStatement("window") /\ (Stmt.arg = "always" \/ graphics)
    /\ \E d \in 0..MaxDuration :
        /\ countdown' = d
        /\ duration' = d
    /\ cur' = [fn |-> Stmt.op, arg |-> Stmt.arg, ret |-> "active", frames |-> 0, read |-> "NONE"]
    /\ pc' = "check"
    /\ drained' = 0
    /\ succeeded' = NoFrameCalls
    /\ UNCHANGED <<ip, evt, failed, failure, log>>
    /\ UNCHANGED runtimeVars
    /\ UNCHANGED runVars
    /\ UNCHANGED <<asked, formatVars, cacheVars, locateVars, meshVars>>
    /\ UNCHANGED <<frameState, frameEndInfo, issued>>

\* submitFramesUntilSessionState(instance, session, expectedSessionState, duration)
\* with the duration given by the caller, from zero on.
submitFramesUntilSessionState_duration ==
    /\ AtStatement("submitUntil")
    /\ \E d \in 0..MaxDuration :
        /\ countdown' = d
        /\ duration' = d
    /\ cur' = [fn |-> "submitUntil", arg |-> Stmt.arg, ret |-> "active", frames |-> 0, read |-> "NONE"]
    /\ pc' = "check"
    /\ drained' = 0
    /\ succeeded' = NoFrameCalls
    /\ UNCHANGED <<ip, evt, failed, failure, log>>
    /\ UNCHANGED runtimeVars
    /\ UNCHANGED runVars
    /\ UNCHANGED <<asked, formatVars, cacheVars, locateVars, meshVars>>
    /\ UNCHANGED <<frameState, frameEndInfo, issued>>

\* "Normal operation", each helper called with a duration of the caller's choice.
DurationInit == Init /\ scenario = "Normal"

DurationNext ==
    \/ SessionCall
    \/ waitForNextSessionState_duration
    \/ submitFramesUntilSessionState_duration
    \/ LoopBody
    \/ waitForNextSessionState_TimeUp
    \/ submitFramesUntilSessionState_TimeUp
    \/ tryReadEvent_Throw
    \/ tryGetNextSessionState_Discard
    \/ tryGetNextSessionState_Found
    \/ tryGetNextSessionState_Drained
    \/ sleep_for
    \/ submitFrame_xrWaitFrame
    \/ submitFrame_xrBeginFrame
    \/ submitFrame_xrEndFrame
    \/ RuntimeAdvance
    \/ RuntimeDeviate
    \/ RuntimeOtherEvent

DurationSpec == DurationInit /\ [][DurationNext]_vars

\* The helper in progress, or the last one, was called with duration zero.
ZeroDuration == PollerCall /\ duration = 0

\* C30: called with duration zero, waitForNextSessionState returns false and
\* submitFramesUntilSessionState fails with "Failed to reach expected session
\* state" at their first step after entry, whatever is in the queue: the call
\* polls nothing, reads no event, sleeps not and begins no frame, and a
\* session-state-changed event of the expected state that is pending stays
\* in the queue.
C30_ZeroDurationDoesNothing ==
    /\ [](ZeroDuration =>
            /\ cur.ret \in {"active", "false", "fail"}
            /\ cur.ret = "active" => pc = "check" /\ countdown = 0
            /\ cur.ret = "false" => WaitCall
            /\ cur.ret = "fail" => SubmitCall /\ Aborted
            /\ drained = 0 /\ cur.frames = 0 /\ issued = <<>>
            /\ cur.read = "NONE")
    /\ [][(ZeroDuration /\ pc = "check") =>
            /\ queue' = queue /\ evt' = evt /\ countdown' = countdown
            /\ Len(log') > Len(log) => log'[Len(log')].k = "window"
            /\ cur'.ret = IF WaitCall THEN "false" ELSE "fail"
            /\ SubmitCall => pc' = "done" /\ failed'
            /\ (SubmitCall /\ ~failed) => failure' = "timeout"
            /\ pc' \in {"step", "done"}]_vars

C30_Witness ==
    /\ ZeroDuration /\ SubmitCall /\ cur.ret = "fail" /\ failure = "timeout"
    /\ Pending # <<>> /\ Head(Pending) = cur.arg


\* ----------------------------------------------- calls out of turn (C31)
\* Record line i is the call of a leaf section of "Try calls out of turn".
IsProbe(i) == log[i].k = "call" /\ Script[log[i].at].sect # 0

\* The events the statements before statement k consume when none fails.
EventsDueBefore(k) ==
    Cardinality({j \in 1..(k - 1) : Script[j].op \in {"waitFor", "submitUntil", "runTo"}})

\* The driving thread is about to make the call of the leaf section it entered.
ProbeCall ==
    /\ scenario = "OutOfTurn" /\ AtStatement("call")
    /\ Stmt.sect # 0 /\ Stmt.sect = probe

\* C31: in "Try calls out of turn", a call made out of turn that returns the
\* error the section expects changes nothing of the session (state, running
\* flag, exit request, end, queue); against a runtime that keeps the contract
\* every such call returns that error, it is made with exactly the events of
\* the statements before it consumed, and the events the run consumes are,
\* with or without the call, a prefix of IDLE .. FOCUSED, VISIBLE .. EXITING,
\* the whole of it when the run passes.
C31_OutOfTurnCallChangesNothing ==
    /\ []((scenario = "OutOfTurn" /\ deviations = 0) =>
            /\ IsPrefix(Consumed, Lifecycle)
            /\ Passed => Consumed = Lifecycle
            /\ \A i \in DOMAIN log :
                  IsProbe(i) =>
                     /\ log[i].b = Expected(i)
                     /\ EvtsBefore(i) = EventsDueBefore(log[i].at))
    /\ [][(ProbeCall /\ Len(log') = Len(log) + 1 /\ log'[Len(log')].b = Stmt.expect) =>
            UNCHANGED <<queue, rtState, running, exitRequested, ended, frameSubmitted,
                        deviations, delivered>>]_vars

C31_Witness ==
    /\ scenario = "OutOfTurn" /\ probe = 8 /\ deviations = 0 /\ Passed
    /\ Consumed = Lifecycle
    /\ \E i \in DOMAIN log :
          /\ IsProbe(i) /\ IsCall(i, "xrEndSession") /\ log[i].b = "SESSION_NOT_STOPPING"
          /\ EvtsBefore(i) = 5


\* ------------------------------------------------- frame balance (C32)
\* No submitFrame is in progress: the helper is between frames or has returned.
BetweenFrames == pc \in {"step", "check", "poll"} \/ Passed

\* C32: the counts of frame calls that returned success start at zero with
\* each submitFramesUntilSessionState and, whenever no submitFrame is in
\* progress, the three are equal (to the number of frames submitted): no frame
\* is left waited-for or begun and not ended.  Inside a submitFrame the counts
\* differ by at most one in the order wait, begin, end, and xrWaitFrame is
\* called only with the three equal, never with a frame begun and not ended.
C32_FrameCallsBalanced ==
    /\ [](LET w == succeeded["xrWaitFrame"]
              b == succeeded["xrBeginFrame"]
              e == succeeded["xrEndFrame"]
          IN  /\ BetweenFrames => w = b /\ b = e
              /\ (SubmitCall /\ BetweenFrames) => e = cur.frames
              /\ e <= b /\ b <= w /\ w <= e + 1
              /\ pc = "xrWaitFrame" => w = b /\ b = e
              /\ (w # b \/ b # e) => InFrame \/ (Aborted /\ cur.ret = "throw"))
    /\ [][succeeded'["xrWaitFrame"] > succeeded["xrWaitFrame"] =>
            /\ pc = "xrWaitFrame"
            /\ succeeded["xrBeginFrame"] = succeeded["xrEndFrame"]
            /\ succeeded["xrWaitFrame"] = succeeded["xrEndFrame"]]_vars

C32_Witness ==
    /\ SubmitCall /\ cur.ret = "return" /\ pc = "step" /\ cur.frames = 1
    /\ succeeded = [fn \in {"xrWaitFrame", "xrBeginFrame", "xrEndFrame"} |-> 1]


\* ------------------------------------------------------- sleeping (C33)
\* The driving thread is in std::this_thread::sleep_for.
Asleep == pc = "sleep"

\* C33: of the helpers that poll with tryGetNextSessionState, only
\* waitForNextSessionState ever sleeps.  It goes to sleep exactly from a poll
\* that found the queue empty without having read a session state, every such
\* poll is followed by the sleep, one sleep is followed by a test of the
\* countdown and not by another sleep, and a poll that reads a session state
\* is never followed by a sleep.  submitFramesUntilSessionState is never
\* asleep: after an empty poll it goes straight to xrWaitFrame.
C33_SleepsOnlyInWait ==
    /\ []((Asleep /\ PollerCall) =>
            WaitCall /\ cur.ret = "active" /\ cur.read = "NONE" /\ drained > 0)
    /\ [](SubmitCall => ~Asleep)
    /\ [][PollerCall =>
            /\ (~Asleep /\ Asleep') =>
                  /\ WaitCall /\ pc = "poll" /\ queue = <<>>
                  /\ drained' = drained + 1 /\ countdown' = countdown
            /\ (WaitCall /\ drained' = drained + 1) => Asleep'
            /\ (SubmitCall /\ drained' = drained + 1) => pc' = "xrWaitFrame"
            /\ (Asleep /\ ~Asleep') =>
                  pc' = "check" /\ drained' = drained /\ countdown' = Elapse(1)
            /\ (pc = "poll" /\ cur'.read # cur.read) => ~Asleep'
            /\ (pc = "poll" /\ pc' = "poll" /\ Len(queue') < Len(queue)) =>
                  Head(queue) = OtherEvent /\ drained' = drained]_vars

C33_Witness ==
    /\ WaitCall /\ Asleep /\ drained = 2 /\ countdown = WaitTicks - 1 /\ others = 1


\* ------------------------------------------- D3D11TextureCache on its own
\* m_solidColorTextureCache.find(colorKey) != end()
Cached(colorKey) == \E e \in m_solidColorTextureCache : e[1] = colorKey

\* textureIt->second
CachedTexture(colorKey) == (CHOOSE e \in m_solidColorTextureCache : e[1] = colorKey)[2]

\* What a call that returns leaves behind: who asked for what, and the texture returned.
Answer(t, texture) ==
    [by |-> t, n |-> calls, colorKey |-> ColorKey(call[t].rgba), sRGB |-> call[t].sRGB,
     texture |-> texture]

\* A thread enters CreateTypedSolidColorTexture(pbrResources, color, sRGB).
CreateTypedSolidColorTexture(t) ==
    /\ call[t].pc = "idle"
    /\ calls < MaxCalls
    /\ \E rgba \in Colours, sRGB \in BOOLEAN :
          call' = [call EXCEPT ![t] = [pc |-> "lock_find", rgba |-> rgba, sRGB |-> sRGB,
                                       texture |-> 0]]
    /\ calls' = calls + 1
    /\ UNCHANGED <<m_cacheMutex, m_solidColorTextureCache, created, answers>>
    /\ UNCHANGED <<sessionVars, countdown, timerVars, formatVars, locateVars, meshVars>>

\* std::lock_guard<std::mutex> guard(*m_cacheMutex), at either place
lock_guard(t) ==
    /\ call[t].pc \in {"lock_find", "lock_emplace"}
    /\ m_cacheMutex = 0
    /\ m_cacheMutex' = t
    /\ call' = [call EXCEPT ![t].pc = IF call[t].pc = "lock_find" THEN "find" ELSE "emplace"]
    /\ UNCHANGED <<m_solidColorTextureCache, created, answers, calls>>
    /\ UNCHANGED <<sessionVars, countdown, timerVars, formatVars, locateVars, meshVars>>

\* find(colorKey) finds the key: return textureIt->second; the guard is released.
Find_Hit(t) ==
    /\ call[t].pc = "find"
    /\ Cached(ColorKey(call[t].rgba))
    /\ answers' = answers \cup {Answer(t, CachedTexture(ColorKey(call[t].rgba)))}
    /\ m_cacheMutex' = 0
    /\ call' = [call EXCEPT ![t] = NoCall]
    /\ UNCHANGED <<m_solidColorTextureCache, created, calls>>
    /\ UNCHANGED <<sessionVars, countdown, timerVars, formatVars, locateVars, meshVars>>

\* find(colorKey) does not find the key: the guard's block ends.
Find_Miss(t) ==
    /\ call[t].pc = "find"
    /\ ~Cached(ColorKey(call[t].rgba))
    /\ m_cacheMutex' = 0
    /\ call' = [call EXCEPT ![t].pc = "create"]
    /\ UNCHANGED <<m_solidColorTextureCache, created, answers, calls>>
    /\ UNCHANGED <<sessionVars, countdown, timerVars, formatVars, locateVars, meshVars>>

\* texture = Pbr::D3D11Texture::CreateTexture(pbrResources, image), the image
\* being one pixel of rgba in the format R8G8B8A8(sRGB); made without the mutex.
CreateTexture(t) ==
    /\ call[t].pc = "create"
    /\ created' = Append(created, [colorKey |-> ColorKey(call[t].rgba), sRGB |-> call[t].sRGB,
                                   by |-> t])
    /\ call' = [call EXCEPT ![t].pc = "lock_emplace", ![t].texture = Len(created) + 1]
    /\ UNCHANGED <<m_cacheMutex, m_solidColorTextureCache, answers, calls>>
    /\ UNCHANGED <<sessionVars, countdown, timerVars, formatVars, locateVars, meshVars>>

\* Mutant: the new texture takes the place of the entry that is there.
Emplace_Assigns(t) ==
    /\ call[t].pc = "emplace"
    /\ m_solidColorTextureCache' =
          {e \in m_solidColorTextureCache : e[1] # ColorKey(call[t].rgba)}
             \cup {<<ColorKey(call[t].rgba), call[t].texture>>}
    /\ answers' = answers \cup {Answer(t, call[t].texture)}
    /\ m_cacheMutex' = 0
    /\ call' = [call EXCEPT ![t] = NoCall]
    /\ UNCHANGED <<created, calls>>
    /\ UNCHANGED <<sessionVars, countdown, timerVars, formatVars, locateVars, meshVars>>

\* return m_solidColorTextureCache.emplace(colorKey, texture).first->second:
\* the entry is inserted unless the key is there, and the entry of the key is
\* returned either way.
Emplace(t) ==
    /\ call[t].pc = "emplace"
    /\ LET colorKey == ColorKey(call[t].rgba) IN
         IF Cached(colorKey)
           THEN /\ UNCHANGED m_solidColorTextureCache
                /\ answers' = answers \cup {Answer(t, CachedTexture(colorKey))}
           ELSE /\ m_solidColorTextureCache' =
                      m_solidColorTextureCache \cup {<<colorKey, call[t].texture>>}
                /\ answers' = answers \cup {Answer(t, call[t].texture)}
    /\ m_cacheMutex' = 0
    /\ call' = [call EXCEPT ![t] = NoCall]
    /\ UNCHANGED <<created, calls>>
    /\ UNCHANGED <<sessionVars, countdown, timerVars, formatVars, locateVars, meshVars>>

\* The cache as constructed; nothing else runs.
CacheInit == Init /\ scenario = "Normal" /\ graphics = FALSE

CacheNext ==
    \E t \in Threads :
        \/ CreateTypedSolidColorTexture(t)
        \/ lock_guard(t)
        \/ Find_Hit(t)
        \/ Find_Miss(t)
        \/ CreateTexture(t)
        \/ Emplace(t)

CacheSpec == CacheInit /\ [][CacheNext]_vars

\* C34: whatever the interleaving of the calls, the calls that were asked for
\* the same colour key have returned the same texture, which is the texture
\* the cache holds for the key; the cache holds at most one entry per key, and
\* an entry, once inserted, is never replaced or removed.
C34_OneTexturePerKey ==
    /\ [](/\ \A a, b \in answers : a.colorKey = b.colorKey => a.texture = b.texture
          /\ \A a \in answers : <<a.colorKey, a.texture>> \in m_solidColorTextureCache
          /\ \A e, f \in m_solidColorTextureCache : e[1] = f[1] => e = f
          /\ \A e \in m_solidColorTextureCache :
                e[2] \in DOMAIN created /\ created[e[2]].colorKey = e[1])
    /\ [][m_solidColorTextureCache \subseteq m_solidColorTextureCache']_vars

C34_Witness ==
    /\ Len(created) = 2
    /\ created[1].colorKey = created[2].colorKey
    /\ \E a, b \in answers :
          /\ a.by # b.by /\ a.colorKey = b.colorKey /\ a.texture = b.texture
          /\ created[1].by = a.by /\ created[2].by = b.by


\* C35: for every interleaving of the calls, D3D11Texture::CreateTexture is
\* performed at most once for one colour key.
C35_CreatedOncePerKey ==
    \A i, j \in DOMAIN created : created[i].colorKey = created[j].colorKey => i = j

\* C36: the texture a call has returned was created with the sRGB setting
\* that this call asked for, whatever calls came before it.
C36_ReturnedTextureHasRequestedSRGB ==
    \A a \in answers : a.texture \in DOMAIN created /\ created[a.texture].sRGB = a.sRGB


\* --------------------------- xrLocateViews, SECTION("all known view types")
\* What xrLocateViews may return: the runtime is not under test here.
LocateResults ==
    {"SUCCESS", "VALIDATION_FAILURE", "VIEW_CONFIGURATION_TYPE_UNSUPPORTED", "TIME_INVALID"}

\* Catch::Matchers::VectorContains(viewType).match(runtimeViewTypes)
isSupportedType == viewType \in runtimeViewTypes

\* The two xrEnumerateViewConfigurations calls, and the DYNAMIC_SECTION of the
\* loop over KnownViewTypes that this run enters.
xrEnumerateViewConfigurations ==
    /\ locateStep = "created"
    /\ \E types \in SUBSET KnownViewTypes, type \in KnownViewTypes, v \in BOOLEAN :
          /\ type \in CoreViewTypes => v
          /\ runtimeViewTypes' = types
          /\ viewType' = type
          /\ valid' = v
    /\ locateStep' = "section"
    /\ UNCHANGED <<locateInfo, autoSession, result, locateFailed>>
    /\ UNCHANGED <<sessionVars, countdown, timerVars, formatVars, cacheVars, meshVars>>

\* if (!valid) CHECK_MSG(!isSupportedType, ...)
CheckValid ==
    /\ locateStep = "section"
    /\ locateFailed' = (~valid /\ isSupportedType)
    /\ locateStep' = "classified"
    /\ UNCHANGED <<viewType, valid, runtimeViewTypes, locateInfo, autoSession, result>>
    /\ UNCHANGED <<sessionVars, countdown, timerVars, formatVars, cacheVars, meshVars>>

\* viewConfigDependentSetup(configType), first half: the two assignments and
\* session.BeginSession(), which begins the session with session.viewConfigurationType.
viewConfigDependentSetup(configType) ==
    /\ locateInfo' = [locateInfo EXCEPT !.viewConfigurationType = configType]
    /\ autoSession' = [viewConfigurationType |-> configType, begun |-> configType,
                       state |-> autoSession.state]

\* if (isSupportedType): xrEnumerateViewConfigurationViews, viewConfigDependentSetup(viewType)
SupportedType_Setup ==
    /\ locateStep = "classified"
    /\ isSupportedType
    /\ viewConfigDependentSetup(viewType)
    /\ locateStep' = "begun"
    /\ UNCHANGED <<viewType, valid, runtimeViewTypes, result, locateFailed>>
    /\ UNCHANGED <<sessionVars, countdown, timerVars, formatVars, cacheVars, meshVars>>

\* viewConfigDependentSetup, second half: frameIterator.RunToSessionState(FOCUSED),
\* time = frameIterator.frameState.predictedDisplayTime, REQUIRE(time != 0),
\* locateInfo.displayTime = time.
SupportedType_RunToFocused ==
    /\ locateStep = "begun"
    /\ \E time \in 0..MaxTime :
          /\ autoSession' = [autoSession EXCEPT !.state = "FOCUSED"]
          /\ IF time # 0
               THEN /\ locateInfo' = [locateInfo EXCEPT !.displayTime = time]
                    /\ locateStep' = "focused"
                    /\ UNCHANGED locateFailed
               ELSE /\ locateFailed' = TRUE
                    /\ locateStep' = "aborted"
                    /\ UNCHANGED locateInfo
    /\ UNCHANGED <<viewType, valid, runtimeViewTypes, result>>
    /\ UNCHANGED <<sessionVars, countdown, timerVars, formatVars, cacheVars, meshVars>>

\* CHECK(XR_SUCCESS == xrLocateViews(session, &locateInfo, ...))
SupportedType_xrLocateViews ==
    /\ locateStep = "focused"
    /\ \E res \in LocateResults :
          /\ result' = res
          /\ locateFailed' = (locateFailed \/ res # "SUCCESS")
    /\ locateStep' = "located"
    /\ UNCHANGED <<viewType, valid, runtimeViewTypes, locateInfo, autoSession>>
    /\ UNCHANGED <<sessionVars, countdown, timerVars, formatVars, cacheVars, meshVars>>

\* else: result = xrLocateViews(session, &locateInfo, ...);
\* REQUIRE_THAT(result, In({VALIDATION_FAILURE, VIEW_CONFIGURATION_TYPE_UNSUPPORTED}))
UnsupportedType_xrLocateViews ==
    /\ locateStep = "classified"
    /\ ~isSupportedType
    /\ \E res \in LocateResults :
          /\ result' = res
          /\ locateFailed' =
                (locateFailed \/ res \notin {"VALIDATION_FAILURE", "VIEW_CONFIGURATION_TYPE_UNSUPPORTED"})
    /\ locateStep' = "located"
    /\ UNCHANGED <<viewType, valid, runtimeViewTypes, locateInfo, autoSession>>
    /\ UNCHANGED <<sessionVars, countdown, timerVars, formatVars, cacheVars, meshVars>>

\* The test case as constructed; nothing else runs.
LocateInit == Init /\ scenario = "Normal" /\ graphics = FALSE

LocateNext ==
    \/ xrEnumerateViewConfigurations
    \/ CheckValid
    \/ SupportedType_Setup
    \/ SupportedType_RunToFocused
    \/ SupportedType_xrLocateViews
    \/ UnsupportedType_xrLocateViews

LocateSpec == LocateInit /\ [][LocateNext]_vars

\* xrLocateViews has been called in the section.
Located == locateStep = "located"

\* C37: in "all known view types", xrLocateViews for a type the runtime does
\* not support is called with locateInfo.viewConfigurationType equal to that
\* type and the section fails unless the call returns VALIDATION_FAILURE or
\* VIEW_CONFIGURATION_TYPE_UNSUPPORTED; for a supported type the session has
\* been begun with that type and driven to FOCUSED before the call, and the
\* section fails unless the call returns success.
C37_LocateViewsWithNotedType ==
    Located =>
        /\ locateInfo.viewConfigurationType = viewType
        /\ IF isSupportedType
             THEN /\ autoSession.begun = viewType /\ autoSession.state = "FOCUSED"
                  /\ locateInfo.displayTime # 0
                  /\ result # "SUCCESS" => locateFailed
             ELSE /\ autoSession.begun = 0
                  /\ result \notin {"VALIDATION_FAILURE", "VIEW_CONFIGURATION_TYPE_UNSUPPORTED"} =>
                        locateFailed


\* --------------------------------------- the gradient format loop (C38)
\* tp passes the three tests of the loop.
Eligible ==
    /\ params.supportsRendering = "RENDERING_SUPPORT"
    /\ params.colorFormat = "COLOR"
    /\ params.colorIntegerRange = NoIntegerColor

\* The loop has decided about the format.
Decided == Filled /\ formatStep # "filled"

AsProjection == [projFormat |-> imageFormat, quadFormat |-> defaultFormat]

AsQuad == [projFormat |-> defaultFormat, quadFormat |-> imageFormat]

\* C38: a format gets its DYNAMIC_SECTION, and with it any interactive
\* rendering, exactly when its record supports rendering, is a color format
\* and has no integer range; when the runs for such a format are complete it
\* has been rendered once as projection format against the default quad format
\* and, unless it is the default format, once more as quad format against the
\* default projection format, and in no other combination.
C38_RenderedIffEligible ==
    /\ [](Decided =>
            (formatStep \in {"section", "run_again", "complete"} <=> Eligible))
    /\ [](rendered # <<>> => Decided /\ Eligible)
    /\ [](formatStep = "section" => rendered = <<>>)
    /\ [](formatStep = "run_again" => rendered = <<AsProjection>> /\ imageFormat # defaultFormat)
    /\ [](formatStep = "complete" =>
            rendered = IF imageFormat = defaultFormat
                         THEN <<AsProjection>>
                         ELSE <<AsProjection, AsQuad>>)
    /\ [][rendered' # rendered => Eligible /\ Len(rendered') = Len(rendered) + 1]_vars

C38_Witness ==
    /\ formatStep = "complete" /\ imageFormat = 2 /\ defaultFormat = 1
    /\ rendered = <<[projFormat |-> 2, quadFormat |-> 1], [projFormat |-> 1, quadFormat |-> 2]>>


\* ------------------------------------------- MakeGradientMesh on its own
\* MakeGradientMesh(graphicsPlugin, referenceComponents), for any mask.
MakeGradientMesh ==
    /\ meshStep = "entered"
    /\ \E mask \in 0..15 : referenceComponents' = mask
    /\ meshStep' = "vertices"
    /\ UNCHANGED <<vertices, indices, col>>
    /\ UNCHANGED <<sessionVars, countdown, timerVars, formatVars, cacheVars, locateVars>>

\* XrColor4f color{mask & r ? value : 0, mask & g ? value : 0, mask & b ? value : 0, 1.0}
\* with value = col / 256, then color = ColorUtils::FromSRGB(color).
GradientColor(mask, c) ==
    [component \in {"r", "g", "b"} |->
        FromSRGB(IF HasComponent(mask, RawColorComponents[component]) THEN c ELSE 0)]

\* One vertex: position in units of 1 / gradientImageWidth, and the colour.
Vertex(x, y, color) == [Position |-> <<x, y, 0>>, Colour |-> <<color.r, color.g, color.b>>]

\* One turn of the first loop: the two vertices of column col.
PushVertices ==
    /\ meshStep = "vertices"
    /\ col < gradientImageWidth
    /\ LET color == GradientColor(referenceComponents, col)
           x == col - gradientImageWidth \div 2
           halfHeight == gradientImageHeight \div 2
       IN  vertices' = vertices \o <<Vertex(x, halfHeight, color), Vertex(x, 0 - halfHeight, color)>>
    /\ col' = col + 1
    /\ UNCHANGED <<referenceComponents, indices, meshStep>>
    /\ UNCHANGED <<sessionVars, countdown, timerVars, formatVars, cacheVars, locateVars>>

\* The first loop ends; the second begins with col = 0.
VerticesDone ==
    /\ meshStep = "vertices"
    /\ col >= gradientImageWidth
    /\ col' = 0
    /\ meshStep' = "indices"
    /\ UNCHANGED <<referenceComponents, vertices, indices>>
    /\ UNCHANGED <<sessionVars, countdown, timerVars, formatVars, cacheVars, locateVars>>

\* Mutant: the second loop runs over every column, the last one included.
PushIndices_EveryColumn ==
    /\ meshStep = "indices"
    /\ col < gradientImageWidth
    /\ indices' = indices \o [k \in 1..Len(quadIndices) |-> uint16_t(col * 2 + quadIndices[k])]
    /\ col' = col + 1
    /\ UNCHANGED <<referenceComponents, vertices, meshStep>>
    /\ UNCHANGED <<sessionVars, countdown, timerVars, formatVars, cacheVars, locateVars>>

\* One turn of the second loop: indices.push_back((uint16_t)(col * 2 + index))
\* for the six quadIndices.
PushIndices ==
    /\ meshStep = "indices"
    /\ col < gradientImageWidth - 1
    /\ indices' = indices \o [k \in 1..Len(quadIndices) |-> uint16_t(col * 2 + quadIndices[k])]
    /\ col' = col + 1
    /\ UNCHANGED <<referenceComponents, vertices, meshStep>>
    /\ UNCHANGED <<sessionVars, countdown, timerVars, formatVars, cacheVars, locateVars>>

\* return graphicsPlugin.MakeSimpleMesh(indices, vertices)
MakeSimpleMesh ==
    /\ meshStep = "indices"
    /\ col >= gradientImageWidth - 1
    /\ meshStep' = "made"
    /\ UNCHANGED <<referenceComponents, vertices, indices, col>>
    /\ UNCHANGED <<sessionVars, countdown, timerVars, formatVars, cacheVars, locateVars>>

\* The function as entered; nothing else runs.
MeshInit == Init /\ scenario = "Normal" /\ graphics = FALSE

MeshNext ==
    \/ MakeGradientMesh
    \/ PushVertices
    \/ VerticesDone
    \/ PushIndices
    \/ MakeSimpleMesh

MeshSpec == MeshInit /\ [][MeshNext]_vars

\* The value col * 2 + index of the k-th index pushed, before the cast.
IndexBeforeCast(k) == ((k - 1) \div 6) * 2 + quadIndices[((k - 1) % 6) + 1]

\* C39: the mesh handed to MakeSimpleMesh has 2 * 256 vertices and
\* 6 * (256 - 1) indices; every index pushed is the value col * 2 + index
\* itself, which the 16-bit cast has not wrapped, and is smaller than the
\* number of vertices of the mesh; and a colour channel of a vertex is
\* non-zero only if the channel is in referenceComponents.
C39_GradientMeshWellFormed ==
    /\ meshStep = "made" =>
          /\ gradientImageWidth = 256
          /\ Len(vertices) = 2 * gradientImageWidth
          /\ Len(indices) = 6 * (gradientImageWidth - 1)
          /\ \A k \in DOMAIN indices : indices[k] < Len(vertices)
    /\ \A k \in DOMAIN indices :
          indices[k] = IndexBeforeCast(k) /\ indices[k] < 65536
    /\ \A v \in DOMAIN vertices :
          /\ vertices[v].Colour[1] # 0 => HasComponent(referenceComponents, RawColorComponents.r)
          /\ vertices[v].Colour[2] # 0 => HasComponent(referenceComponents, RawColorComponents.g)
          /\ vertices[v].Colour[3] # 0 => HasComponent(referenceComponents, RawColorComponents.b)

C39_Witness ==
    /\ meshStep = "made" /\ referenceComponents = 5
    /\ Len(indices) = 1530 /\ indices[1530] = 509
    /\ vertices[512].Colour[1] # 0 /\ vertices[512].Colour[2] = 0 /\ vertices[512].Colour[3] # 0
====
